---- MODULE Spec2Model ----
(***************************************************************************)
(* The dual-pane SFTP browser of sshm (src/src/tui/app_sftp.rs): the UI    *)
(* loop of run_sftp_ui, its download pool, the worker threads it spawns    *)
(* and the two mpsc channels they report on.                               *)
(*                                                                         *)
(* Strings and paths are sequences of one-character strings, so that the   *)
(* path functions are computed as the code computes them.                  *)
(***************************************************************************)
EXTENDS Integers, Sequences, FiniteSets, TLC

\* ------------------------------------------------------------------ bounds

\* How many single-file download jobs the operator may request in a run.
MaxJobs == 5
\* The same, where the fair behaviours of the pool are explored.
MaxLiveJobs == 4
\* The same, where every outcome of the environment is explored.
MaxRequests == 2
\* How many upload workers the operator may start in a run.
MaxUploads == 1
\* The largest number looked for in a destination name.
MaxProbe == 9

\* How many single-file downloads the operator asks for where folder
\* downloads and uploads are started beside a full pool.
MaxCapJobs == 4

\* The byte counts are u64 in the source; the model keeps the arithmetic of a
\* word of 16 bits, whose largest value is WordMax.
WordMax == 65535

\* How many jobs of each kind (single-file download, folder download, upload)
\* the operator starts where the three kinds of worker run side by side.
MaxOfEachKind == 1

\* How many uploads run side by side where their progress views are compared.
MaxUploadPair == 2
\* How many folder downloads the operator may start in a run.
MaxFolders == 1
\* How long the filter may grow, and the characters typed into it.
MaxFilterLen == 1
FilterChars == {"a"}

\* ------------------------------------------------------- program constants

MAX_PARALLEL_DOWNLOADS == 3

\* ---------------------------------------------------------------- Option<T>

None == [some |-> FALSE]
Some(x) == [some |-> TRUE, v |-> x]

\* ------------------------------------------------------------------ strings

\* The byte value of a character: Rust compares strings bytewise.
Code(c) ==
  CASE c = " " -> 32 [] c = "'" -> 39 [] c = "(" -> 40 [] c = ")" -> 41
    [] c = "." -> 46 [] c = "/" -> 47
    [] c = "0" -> 48 [] c = "1" -> 49 [] c = "2" -> 50 [] c = "3" -> 51
    [] c = "4" -> 52 [] c = "5" -> 53 [] c = "6" -> 54 [] c = "7" -> 55
    [] c = "8" -> 56 [] c = "9" -> 57
    [] c = "A" -> 65 [] c = "B" -> 66 [] c = "D" -> 68
    [] c = "a" -> 97 [] c = "b" -> 98 [] c = "c" -> 99 [] c = "d" -> 100 [] c = "e" -> 101
    [] c = "f" -> 102 [] c = "h" -> 104 [] c = "m" -> 109 [] c = "o" -> 111 [] c = "t" -> 116
    [] c = "u" -> 117 [] c = "x" -> 120

\* char::to_lowercase on the characters used.
LowerChar(c) ==
  CASE c = "A" -> "a" [] c = "B" -> "b" [] c = "D" -> "d" [] OTHER -> c

\* str::to_lowercase
to_lowercase(s) == [i \in 1..Len(s) |-> LowerChar(s[i])]

\* Ordering of str (lexicographic on bytes): a < b when, at the first position
\* k where they differ, a has ended or holds the smaller byte.
StrLess(a, b) ==
  \E k \in 1..Len(b) :
    /\ \A j \in 1..(k - 1) : j <= Len(a) /\ Code(a[j]) = Code(b[j])
    /\ \/ k = Len(a) + 1
       \/ (k <= Len(a) /\ Code(a[k]) < Code(b[k]))

\* str::contains: sub occurs in s.
Contains(s, sub) ==
  \E i \in 0..(Len(s) - Len(sub)) : SubSeq(s, i + 1, i + Len(sub)) = sub

\* str::find(ch): the first position (1-based) of ch in s, 0 when there is none.
FindChar(s, ch) ==
  IF \E i \in 1..Len(s) : s[i] = ch
  THEN CHOOSE i \in 1..Len(s) : s[i] = ch /\ \A j \in 1..(i - 1) : s[j] # ch
  ELSE 0

\* The last position of ch in s, 0 when there is none.
RFindChar(s, ch) ==
  IF \E i \in 1..Len(s) : s[i] = ch
  THEN CHOOSE i \in 1..Len(s) : s[i] = ch /\ \A j \in (i + 1)..Len(s) : s[j] # ch
  ELSE 0

Digit(n) ==
  CASE n = 0 -> "0" [] n = 1 -> "1" [] n = 2 -> "2" [] n = 3 -> "3" [] n = 4 -> "4"
    [] n = 5 -> "5" [] n = 6 -> "6" [] n = 7 -> "7" [] n = 8 -> "8" [] n = 9 -> "9"

\* format!("{}", n) for an unsigned integer.
RECURSIVE FormatInt(_)
FormatInt(n) == IF n < 10 THEN <<Digit(n)>> ELSE FormatInt(n \div 10) \o <<Digit(n % 10)>>

\* -------------------------------------------------------------------- paths

\* s without its trailing '/' characters and without the "." components
\* std::path skips at the end of a path, the root "/" kept.
RECURSIVE StripTrailingSlashes(_)
StripTrailingSlashes(s) ==
  IF Len(s) > 1 /\ s[Len(s)] = "/" THEN StripTrailingSlashes(SubSeq(s, 1, Len(s) - 1))
  ELSE IF Len(s) > 1 /\ s[Len(s)] = "." /\ s[Len(s) - 1] = "/"
       THEN StripTrailingSlashes(SubSeq(s, 1, Len(s) - 1))
  ELSE s

\* std::path::Path::parent: None for "/" and for "", else the path without its
\* last component ("" for a single relative component).
PathParent(p) ==
  CHOOSE r \in
    { IF q = <<>> \/ q = <<"/">> THEN None
      ELSE CHOOSE c \in
             { IF k = 0 THEN Some(<<>>)
               ELSE IF k = 1 THEN Some(<<"/">>)
               ELSE Some(StripTrailingSlashes(SubSeq(q, 1, k - 1))) :
                 k \in {RFindChar(q, "/")} } : TRUE :
        q \in {StripTrailingSlashes(p)} } : TRUE

\* std::path::Path::file_name of a path that ends in a normal component.
PathFileName(p) ==
  CHOOSE r \in { SubSeq(q, RFindChar(q, "/") + 1, Len(q)) :
                   q \in {StripTrailingSlashes(p)} } : TRUE

\* std::path::Path::join: an absolute name replaces the path.
PathJoin(dir, name) ==
  IF name # <<>> /\ name[1] = "/" THEN name
  ELSE IF dir = <<>> \/ dir[Len(dir)] = "/" THEN dir \o name
  ELSE dir \o <<"/">> \o name

\* The join that puts a '/' after every base.
join_remote_path_Slash(base, name) == base \o <<"/">> \o name

join_remote_path(base, name) ==
  IF base = <<"/">> THEN <<"/">> \o name
  ELSE IF base # <<>> /\ base[Len(base)] = "/" THEN base \o name
  ELSE base \o <<"/">> \o name

parent_remote_path(path) ==
  IF path = <<"/">> THEN <<"/">>
  ELSE LET p == PathParent(path)
       IN  IF p.some THEN (IF p.v = <<>> THEN <<"/">> ELSE p.v) ELSE <<"/">>

\* --------------------------------------------------------------- filesystem

VARIABLES
  local_dirs,        \* the local directories: a set of paths
  local_files,       \* the local files: a set of [path, size]
  remote_dirs,       \* the remote directories: a set of paths
  remote_files       \* the remote files: a set of [path, size]

fsVars == <<local_dirs, local_files, remote_dirs, remote_files>>

FilePaths(files) == {f.path : f \in files}

\* Path::exists on the local side.
LocalExists(p) == p \in local_dirs \/ p \in FilePaths(local_files)

\* fs::metadata(p).len() of an existing local file.
LocalFileSize(p) == (CHOOSE f \in local_files : f.path = p).size

RemoteFileSize(p) == (CHOOSE f \in remote_files : f.path = p).size

\* The entries of directory dir, as read from the filesystem (no order).
DirEntries(dirs, files, dir) ==
  {[name |-> PathFileName(d), is_dir |-> TRUE] :
      d \in {x \in dirs : PathParent(x) = Some(dir)}}
  \cup
  {[name |-> PathFileName(f), is_dir |-> FALSE] :
      f \in {x \in FilePaths(files) : PathParent(x) = Some(dir)}}

\* The comparator of entries.sort_by: directories first, then the lowercased
\* names; TRUE when a sorts strictly before b.
EntryLess(a, b) ==
  IF a.is_dir /\ ~b.is_dir THEN TRUE
  ELSE IF ~a.is_dir /\ b.is_dir THEN FALSE
  ELSE StrLess(to_lowercase(a.name), to_lowercase(b.name))

\* slice::sort_by is a stable sort: list[i] lands behind the entries that
\* precede it and behind the earlier entries it does not precede.
SortRank(list, i) ==
  Cardinality({j \in 1..Len(list) :
                 \/ EntryLess(list[j], list[i])
                 \/ (j < i /\ ~EntryLess(list[i], list[j]))}) + 1

\* The sort that leaves the entries in the order they were read.
SortEntries_Unsorted(unsorted) == unsorted

SortEntries(unsorted) ==
  CHOOSE sorted \in
    { CHOOSE s \in
        { <<>> \o [k \in 1..Len(list) |-> list[CHOOSE i \in 1..Len(list) : rank[i] = k]] :
            rank \in { <<>> \o [i \in 1..Len(list) |-> SortRank(list, i)] } } : TRUE :
        list \in {unsorted} } : TRUE

\* The order in which the operating system hands out a directory's entries
\* (the names within one directory differ).
ReadDirOrder(entries) ==
  CHOOSE list \in
    { <<>> \o [k \in 1..Cardinality(set) |->
                CHOOSE x \in set : Cardinality({y \in set : StrLess(y.name, x.name)}) = k - 1] :
        set \in {entries} } : TRUE

ParentEntry == [name |-> <<".", ".">>, is_dir |-> TRUE]

\* read_local_dir(path) when the directory can be read.
read_local_dir(path) == SortEntries(ReadDirOrder(DirEntries(local_dirs, local_files, path)))

\* ssh_list_remote_dir(path) when ssh runs and ls exits with status 0.
ssh_list_remote_dir(path) ==
  SortEntries(ReadDirOrder(DirEntries(remote_dirs, remote_files, path)))

\* The listing with the synthetic ".." entry the callers insert at index 0.
WithParentLocal(cwd, list) == IF PathParent(cwd).some THEN <<ParentEntry>> \o list ELSE list

WithParentRemote(cwd, list) == IF cwd # <<"/">> THEN <<ParentEntry>> \o list ELSE list

\* The probe that takes the first numbered name without looking whether it
\* is free.
UniqueProbe_NoCheck(dir, base, suffix, n) ==
  PathJoin(dir, base \o <<" ", "(">> \o FormatInt(n) \o <<")">> \o suffix)

\* The loop of unique_local_path: the first free "base (n)suffix", n = 1, 2, ...
RECURSIVE UniqueProbe(_, _, _, _)
UniqueProbe(dir, base, suffix, n) ==
  LET candidate == PathJoin(dir, base \o <<" ", "(">> \o FormatInt(n) \o <<")">> \o suffix)
  IN  IF ~LocalExists(candidate) THEN candidate
      ELSE UniqueProbe(dir, base, suffix, n + 1)

unique_local_path(dir, file_name) ==
  LET pos    == FindChar(file_name, ".")
      base   == IF pos > 0 THEN SubSeq(file_name, 1, pos - 1) ELSE file_name
      suffix == IF pos > 0 THEN SubSeq(file_name, pos, Len(file_name)) ELSE <<>>
      candidate == PathJoin(dir, base \o suffix)
  IN  IF ~LocalExists(candidate) THEN candidate
      ELSE UniqueProbe(dir, base, suffix, 1)

\* apply_filter: the entries whose lowercased name contains the lowercased filter.
apply_filter(entries, filter) ==
  IF filter = <<>> THEN entries
  ELSE SelectSeq(entries, LAMBDA e : Contains(to_lowercase(e.name), to_lowercase(filter)))

\* ------------------------------------------------------- run_sftp_ui state

VARIABLES
  pc,                 \* where the UI loop is: "ul", "dl", "input" or "quit"
  focus,              \* PanelFocus: "Local" or "Remote"
  mode,               \* Mode: "Normal" or "Filter"
  filter_input,
  message,            \* Option<String>, the text kept as a tuple of its parts
  local_panel,        \* PanelState [cwd, entries, selected]
  remote_panel,
  next_download_id,
  active_downloads,   \* Vec<ActiveDownload>
  pending_downloads,  \* VecDeque<DownloadJob>
  upload_progress,    \* Option<UploadProgressState>
  download_progress,  \* Option<DownloadProgressState>
  dl_chan,            \* the events sent on dl_tx and not yet received
  ul_chan,            \* the events sent on ul_tx and not yet received
  dl_threads,         \* the threads spawned for single-file downloads
  ul_threads,         \* the threads spawned for uploads
  fd_threads          \* the threads spawned for folder downloads

panelVars == <<focus, mode, filter_input, local_panel, remote_panel>>
poolVars == <<next_download_id, active_downloads, pending_downloads>>
progVars == <<upload_progress, download_progress>>
chanVars == <<dl_chan, ul_chan>>
threadVars == <<dl_threads, ul_threads, fd_threads>>
vars == <<pc, message, panelVars, poolVars, progVars, chanVars, threadVars, fsVars>>

\* dirs::home_dir() and the remote account.
LocalHome == <<"/", "h">>
User == <<"u">>
RemoteHome == <<"/", "h", "o", "m", "e", "/">> \o User

\* The filesystems the browser is started on.
InitLocalDirs == {<<"/">>, LocalHome, LocalHome \o <<"/", "e">>}
InitLocalFiles ==
  { [path |-> LocalHome \o <<"/", "x">>, size |-> 1],
    [path |-> LocalHome \o <<"/", "e", "/", "a">>, size |-> 1],
    [path |-> LocalHome \o <<"/", "e", "/", "b">>, size |-> 2] }
InitRemoteDirs ==
  {<<"/">>, <<"/", "h", "o", "m", "e">>, RemoteHome, RemoteHome \o <<"/", "d">>}
InitRemoteFiles ==
  { [path |-> RemoteHome \o <<"/", "a", ".", "t">>, size |-> 2],
    [path |-> RemoteHome \o <<"/", "d", "/", "a">>, size |-> 10],
    [path |-> RemoteHome \o <<"/", "d", "/", "b">>, size |-> 20],
    [path |-> RemoteHome \o <<"/", "d", "/", "c">>, size |-> 30] }

\* What a run of ssh for a listing can come to: ls exits 0, ssh or ls exits
\* non-zero, or ssh cannot be run at all (cmd.output() is an Err).
ListOutcomes(path) == (IF path \in remote_dirs THEN {"ok"} ELSE {}) \cup {"nonzero", "err"}

\* The io::Result<Vec<FileEntry>> of ssh_list_remote_dir under outcome o.
RemoteList(path, o) ==
  IF o = "ok" THEN [ok |-> TRUE, list |-> ssh_list_remote_dir(path)]
  ELSE IF o = "nonzero" THEN [ok |-> TRUE, list |-> <<>>]
  ELSE [ok |-> FALSE, list |-> <<>>]

\* What fs::read_dir can come to: the directory is read, or an io error.
LocalOutcomes(path) == (IF path \in local_dirs THEN {"ok"} ELSE {}) \cup {"err"}

PanelState_new(cwd) == [cwd |-> cwd, entries |-> <<>>, selected |-> 0]

\* PanelState::selected_entry: entries.get(selected), indices from 0.
selected_entry(panel) ==
  IF panel.selected < Len(panel.entries) THEN Some(panel.entries[panel.selected + 1]) ELSE None

\* The local panel and everything else run_sftp_ui sets before its loop: ol
\* is the outcome of reading the local home directory.
InitLoop(ol) ==
  /\ local_panel =
       [PanelState_new(LocalHome) EXCEPT
          !.entries = WithParentLocal(LocalHome,
                        IF ol = "ok" THEN read_local_dir(LocalHome) ELSE <<>>)]
  /\ pc = "ul"
  /\ focus = "Remote"
  /\ message = None
  /\ mode = "Normal"
  /\ filter_input = <<>>
  /\ upload_progress = None
  /\ download_progress = None
  /\ next_download_id = 1
  /\ active_downloads = <<>>
  /\ pending_downloads = <<>>
  /\ dl_chan = <<>>
  /\ ul_chan = <<>>
  /\ dl_threads = <<>>
  /\ ul_threads = <<>>
  /\ fd_threads = <<>>

\* The state in which run_sftp_ui enters its loop: oh is the outcome of listing
\* the remote home, os of listing the start directory, ol of reading the local one.
InitUi(oh, os, ol) ==
  /\ LET remote_start == IF Len(RemoteList(RemoteHome, oh).list) > 0 THEN RemoteHome ELSE <<"/">>
     IN  /\ os \in ListOutcomes(remote_start) \ {"err"}
         /\ remote_panel =
              [PanelState_new(remote_start) EXCEPT
                 !.entries = WithParentRemote(remote_start, RemoteList(remote_start, os).list)]
  /\ InitLoop(ol)

InitWith(oh, os, ol) ==
  /\ local_dirs = InitLocalDirs
  /\ local_files = InitLocalFiles
  /\ remote_dirs = InitRemoteDirs
  /\ remote_files = InitRemoteFiles
  /\ InitUi(oh, os, ol)

Init ==
  \E oh \in {"ok", "nonzero", "err"}, os \in {"ok", "nonzero"}, ol \in {"ok", "err"} :
    InitWith(oh, os, ol)

\* ------------------------------------------------- the download aggregator

\* The loop drains ul_rx before dl_rx: the download drain starts once try_recv
\* on ul_rx has found nothing.
InDlDrain == pc = "dl" \/ (pc = "ul" /\ ul_chan = <<>>)

\* A retain whose predicate is inverted keeps only the finished job.
RetainOthers_Inverted(active, id) == SelectSeq(active, LAMBDA d : d.id = id)

\* A retain that also drops every job older than the finished one.
RetainOthers_Newer(active, id) == SelectSeq(active, LAMBDA d : d.id > id)

\* active_downloads.retain(|d| d.id != id)
RetainOthers(active, id) == SelectSeq(active, LAMBDA d : d.id # id)

\* The retain moved into the Ok arm: a failed job keeps its slot.
HandleDlCompleted_ErrKeepsSlot(ev, ol) ==
  /\ download_progress' = None
  /\ active_downloads' =
       IF ev.ok THEN RetainOthers(active_downloads, ev.id) ELSE active_downloads
  /\ local_panel' =
       IF ev.ok /\ ol = "ok"
       THEN [local_panel EXCEPT
               !.entries = WithParentLocal(local_panel.cwd, read_local_dir(local_panel.cwd))]
       ELSE local_panel
  /\ message' = IF ev.ok THEN Some(<<"Downloaded", ev.file_name>>)
                ELSE Some(<<"Download error for", ev.file_name>>)

\* The arm DownloadEvent::Completed, ol the outcome of the local refresh.
HandleDlCompleted(ev, ol) ==
  /\ download_progress' = None
  /\ active_downloads' = RetainOthers(active_downloads, ev.id)
  /\ IF ev.ok
     THEN /\ local_panel' =
               IF ol = "ok"
               THEN [local_panel EXCEPT
                       !.entries = WithParentLocal(local_panel.cwd,
                                                   read_local_dir(local_panel.cwd))]
               ELSE local_panel
          /\ message' = Some(<<"Downloaded", ev.file_name>>)
     ELSE /\ local_panel' = local_panel
          /\ message' = Some(<<"Download error for", ev.file_name>>)

\* The arm DownloadEvent::Progress.
HandleDlProgress(ev) ==
  /\ download_progress' =
       Some([folder_label |-> ev.folder_label, files_done |-> ev.files_done,
             files_total |-> ev.files_total, done_bytes |-> ev.done_bytes,
             total_bytes |-> ev.total_bytes])
  /\ UNCHANGED <<active_downloads, local_panel, message>>

\* One turn of `while let Ok(ev) = dl_rx.try_recv()`; ol is what the refresh of
\* the local panel comes to when the event asks for one.
DlRecv(ol) ==
  /\ InDlDrain
  /\ dl_chan # <<>>
  /\ LET ev == Head(dl_chan)
     IN  IF ev.type = "Completed"
         THEN ol \in LocalOutcomes(local_panel.cwd) /\ HandleDlCompleted(ev, ol)
         ELSE HandleDlProgress(ev)
  /\ dl_chan' = Tail(dl_chan)
  /\ pc' = "dl"
  /\ UNCHANGED <<focus, mode, filter_input, remote_panel, next_download_id,
                 pending_downloads, upload_progress, ul_chan, threadVars, fsVars>>

\* ------------------------------------------------------- the download pool

\* The loop's `for d in active_downloads.iter_mut()`: current_size follows the
\* length of the local file when fs::metadata finds one.
SampleSizes(active) ==
  [i \in 1..Len(active) |->
     IF active[i].local_path \in FilePaths(local_files)
     THEN [active[i] EXCEPT !.current_size = LocalFileSize(active[i].local_path)]
     ELSE active[i]]

\* The bound compared with <= lets one job too many in.
SlotFree_OffByOne(active) == Len(active) <= MAX_PARALLEL_DOWNLOADS

\* A pool of a single slot.
SlotFree_Single(active) == Len(active) < 1

\* The condition of `while active_downloads.len() < MAX_PARALLEL_DOWNLOADS`.
SlotFree(active) == Len(active) < MAX_PARALLEL_DOWNLOADS

\* pop_back in place of pop_front serves the newest request first.
PopJob_Back(pending) ==
  [job |-> pending[Len(pending)], rest |-> SubSeq(pending, 1, Len(pending) - 1)]

\* pending_downloads.pop_front(): the job taken and the queue left.
PopJob(pending) == [job |-> Head(pending), rest |-> Tail(pending)]

ActiveDownloadOf(job) ==
  [id |-> job.id, file_name |-> job.file_name, local_path |-> job.local_path,
   remote_path |-> job.remote_path, total_size |-> job.total_size, current_size |-> 0]

\* The closure handed to thread::spawn, before it has run.
DownloadThreadOf(job) ==
  [id |-> job.id, file_name |-> job.file_name, local_path |-> job.local_path,
   remote_path |-> job.remote_path, st |-> "running"]

\* An `if` in place of the `while` serves one job per turn of the UI loop.
SpawnLoop_Once(active, pending, threads) ==
  IF SlotFree(active) /\ pending # <<>>
  THEN [active |-> Append(active, ActiveDownloadOf(Head(pending))),
        pending |-> Tail(pending),
        threads |-> Append(threads, DownloadThreadOf(Head(pending)))]
  ELSE [active |-> active, pending |-> pending, threads |-> threads]

\* The spawn loop that takes the slots and starts no worker.
RECURSIVE SpawnLoop_NoWorker(_, _, _)
SpawnLoop_NoWorker(active, pending, threads) ==
  IF SlotFree(active) /\ pending # <<>>
  THEN LET p == PopJob(pending)
       IN  SpawnLoop_NoWorker(Append(active, ActiveDownloadOf(p.job)), p.rest, threads)
  ELSE [active |-> active, pending |-> pending, threads |-> threads]

\* The spawn loop: jobs leave the queue while a slot is free.
RECURSIVE SpawnLoop(_, _, _)
SpawnLoop(active, pending, threads) ==
  IF SlotFree(active) /\ pending # <<>>
  THEN LET p == PopJob(pending)
       IN  SpawnLoop(Append(active, ActiveDownloadOf(p.job)), p.rest,
                     Append(threads, DownloadThreadOf(p.job)))
  ELSE [active |-> active, pending |-> pending, threads |-> threads]

\* From the empty try_recv on dl_rx to the poll for input: the sizes are
\* sampled, the queue is served and the frame is drawn.
SpawnDownloads ==
  /\ InDlDrain
  /\ dl_chan = <<>>
  /\ LET r == SpawnLoop(SampleSizes(active_downloads), pending_downloads, dl_threads)
     IN  /\ active_downloads' = r.active
         /\ pending_downloads' = r.pending
         /\ dl_threads' = r.threads
  /\ pc' = "input"
  /\ UNCHANGED <<message, panelVars, next_download_id, progVars, chanVars,
                 ul_threads, fd_threads, fsVars>>

\* ------------------------------------------- single-file download workers

\* A channel that hands out the newest event first.
Send_Front(chan, ev) == IF pc = "quit" THEN chan ELSE <<ev>> \o chan

\* mpsc::Sender::send: the event is queued unless the receiver is gone.
Send(chan, ev) == IF pc = "quit" THEN chan ELSE Append(chan, ev)

\* scp opens its destination: the local file appears, still empty.
DlWorkerCreate(i) ==
  /\ i \in DOMAIN dl_threads
  /\ dl_threads[i].st = "running"
  /\ ~LocalExists(dl_threads[i].local_path)
  /\ local_files' = local_files \cup {[path |-> dl_threads[i].local_path, size |-> 0]}
  /\ UNCHANGED <<pc, message, panelVars, poolVars, progVars, chanVars, threadVars,
                 local_dirs, remote_dirs, remote_files>>

\* A worker that tries again after a failure: Completed(Err) is sent and the
\* thread keeps running.
DlWorkerExit_Retry(i, ok) ==
  LET t == dl_threads[i]
  IN  /\ i \in DOMAIN dl_threads
      /\ t.st = "running"
      /\ ok => t.remote_path \in FilePaths(remote_files) /\ t.local_path \notin local_dirs
      /\ local_files' =
           IF ok
           THEN {f \in local_files : f.path # t.local_path}
                  \cup {[path |-> t.local_path, size |-> RemoteFileSize(t.remote_path)]}
           ELSE local_files
      /\ dl_chan' = Send(dl_chan, [type |-> "Completed", id |-> t.id,
                                   file_name |-> t.file_name,
                                   local_path |-> t.local_path, ok |-> ok])
      /\ dl_threads' = IF ok THEN [dl_threads EXCEPT ![i].st = "exited"] ELSE dl_threads
      /\ UNCHANGED <<pc, message, panelVars, poolVars, progVars, ul_chan, ul_threads,
                     fd_threads, local_dirs, remote_dirs, remote_files>>

\* A worker that reports only its successes: a failed transfer ends the thread
\* without an event.
DlWorkerExit_Silent(i, ok) ==
  LET t == dl_threads[i]
  IN  /\ i \in DOMAIN dl_threads
      /\ t.st = "running"
      /\ ok => t.remote_path \in FilePaths(remote_files) /\ t.local_path \notin local_dirs
      /\ local_files' =
           IF ok
           THEN {f \in local_files : f.path # t.local_path}
                  \cup {[path |-> t.local_path, size |-> RemoteFileSize(t.remote_path)]}
           ELSE local_files
      /\ dl_chan' =
           IF ok
           THEN Send(dl_chan, [type |-> "Completed", id |-> t.id,
                               file_name |-> t.file_name,
                               local_path |-> t.local_path, ok |-> ok])
           ELSE dl_chan
      /\ dl_threads' = [dl_threads EXCEPT ![i].st = "exited"]
      /\ UNCHANGED <<pc, message, panelVars, poolVars, progVars, ul_chan, ul_threads,
                     fd_threads, local_dirs, remote_dirs, remote_files>>

\* A worker that takes its own job out of the active set when it ends.
DlWorkerExit_Retains(i, ok) ==
  LET t == dl_threads[i]
  IN  /\ i \in DOMAIN dl_threads
      /\ t.st = "running"
      /\ ok => t.remote_path \in FilePaths(remote_files) /\ t.local_path \notin local_dirs
      /\ local_files' =
           IF ok
           THEN {f \in local_files : f.path # t.local_path}
                  \cup {[path |-> t.local_path, size |-> RemoteFileSize(t.remote_path)]}
           ELSE local_files
      /\ dl_chan' = Send(dl_chan, [type |-> "Completed", id |-> t.id,
                                   file_name |-> t.file_name,
                                   local_path |-> t.local_path, ok |-> ok])
      /\ dl_threads' = [dl_threads EXCEPT ![i].st = "exited"]
      /\ active_downloads' = RetainOthers(active_downloads, t.id)
      /\ UNCHANGED <<pc, message, panelVars, next_download_id, pending_downloads, progVars,
                     ul_chan, ul_threads, fd_threads, local_dirs, remote_dirs, remote_files>>

\* download_remote_file returns and the thread sends its Completed event; with
\* ok the file has been copied whole.
DlWorkerExit(i, ok) ==
  LET t == dl_threads[i]
  IN  /\ i \in DOMAIN dl_threads
      /\ t.st = "running"
      /\ ok => t.remote_path \in FilePaths(remote_files) /\ t.local_path \notin local_dirs
      /\ local_files' =
           IF ok
           THEN {f \in local_files : f.path # t.local_path}
                  \cup {[path |-> t.local_path, size |-> RemoteFileSize(t.remote_path)]}
           ELSE local_files
      /\ dl_chan' = Send(dl_chan, [type |-> "Completed", id |-> t.id,
                                   file_name |-> t.file_name,
                                   local_path |-> t.local_path, ok |-> ok])
      /\ dl_threads' = [dl_threads EXCEPT ![i].st = "exited"]
      /\ UNCHANGED <<pc, message, panelVars, poolVars, progVars, ul_chan, ul_threads,
                     fd_threads, local_dirs, remote_dirs, remote_files>>

\* ------------------------------------------------------ the upload workers

\* format!("Folder: {}", name)
FolderLabel(name) == <<"F", "o", "l", "d", "e", "r", ":", " ">> \o name

\* format!("File: {}", name)
FileLabel(name) == <<"F", "i", "l", "e", ":", " ">> \o name

\* `mkdir -p dir`: the directory and those of its ancestors that are missing.
RECURSIVE MkdirP(_)
MkdirP(dir) ==
  LET parent == PathParent(dir)
  IN  IF parent.some /\ parent.v # <<>> THEN {dir} \cup MkdirP(parent.v) ELSE {dir}

\* The closure handed to thread::spawn by 'u', before it has run.  calls is
\* the history of the thread's transport calls, sent that of its events.
UploadThreadOf(entry) ==
  [is_dir |-> entry.is_dir, name |-> entry.name,
   local_root |-> local_panel.cwd, remote_cwd |-> remote_panel.cwd,
   st |-> IF entry.is_dir THEN "scan" ELSE "put",
   files |-> <<>>, next |-> 1, done_files |-> 0, done_bytes |-> 0, total_bytes |-> 0,
   calls |-> <<>>, sent |-> <<>>]

\* The `for entry in read_dir` of the first pass over one directory.
RECURSIVE ScanDir(_, _, _, _, _)
ScanDir(entries, l_dir, r_dir, stack, files) ==
  IF entries = <<>> THEN [stack |-> stack, files |-> files]
  ELSE LET path        == PathJoin(l_dir, Head(entries).name)
           remote_path == join_remote_path(r_dir, Head(entries).name)
       IN  IF path \in local_dirs
           THEN ScanDir(Tail(entries), l_dir, r_dir,
                        Append(stack, [l_dir |-> path, r_dir |-> remote_path]), files)
           ELSE ScanDir(Tail(entries), l_dir, r_dir, stack,
                        Append(files,
                               [local |-> path, remote |-> remote_path,
                                size |-> IF path \in FilePaths(local_files)
                                         THEN LocalFileSize(path) ELSE 0]))

\* The `while let Some((l_dir, r_dir)) = stack.pop()` of the first pass.
RECURSIVE ScanStack(_, _)
ScanStack(stack, files) ==
  IF stack = <<>> THEN files
  ELSE LET top  == stack[Len(stack)]
           rest == SubSeq(stack, 1, Len(stack) - 1)
           r    == IF top.l_dir \in local_dirs
                   THEN ScanDir(ReadDirOrder(DirEntries(local_dirs, local_files, top.l_dir)),
                                top.l_dir, top.r_dir, rest, files)
                   ELSE [stack |-> rest, files |-> files]
       IN  ScanStack(r.stack, r.files)

RECURSIVE SumSizes(_)
SumSizes(files) == IF files = <<>> THEN 0 ELSE Head(files).size + SumSizes(Tail(files))

UploadRemoteRoot(t) == join_remote_path(t.remote_cwd, t.name)

\* Folder upload, first pass: the files below the folder and their sizes.
UlFolderScan(i) ==
  /\ i \in DOMAIN ul_threads
  /\ ul_threads[i].st = "scan"
  /\ LET t     == ul_threads[i]
         files == ScanStack(<<[l_dir |-> PathJoin(t.local_root, t.name),
                               r_dir |-> UploadRemoteRoot(t)]>>, <<>>)
     IN  ul_threads' = [ul_threads EXCEPT
                          ![i] = [t EXCEPT !.st = "mkroot", !.files = files,
                                           !.total_bytes = SumSizes(files)]]
  /\ UNCHANGED <<pc, message, panelVars, poolVars, progVars, chanVars, dl_threads,
                 fd_threads, fsVars>>

\* Folder upload: `let _ = ssh_mkdir_remote(.., &remote_root)`; ok is whether
\* the call returned Ok.
UlFolderMkRoot(i, ok) ==
  /\ i \in DOMAIN ul_threads
  /\ ul_threads[i].st = "mkroot"
  /\ LET t   == ul_threads[i]
         dir == UploadRemoteRoot(t)
     IN  /\ ok => MkdirP(dir) \cap FilePaths(remote_files) = {}
         /\ remote_dirs' = IF ok THEN remote_dirs \cup MkdirP(dir) ELSE remote_dirs
         /\ ul_threads' =
              [ul_threads EXCEPT
                 ![i] = [t EXCEPT
                           !.st = IF t.files = <<>> THEN "finish" ELSE "mkparent",
                           !.calls = Append(@, [op |-> "mkdir", path |-> dir, ok |-> ok])]]
  /\ UNCHANGED <<pc, message, panelVars, poolVars, progVars, chanVars, dl_threads,
                 fd_threads, local_dirs, local_files, remote_files>>

\* Folder upload, per file: `let _ = ssh_mkdir_remote(.., &parent_str)`.
UlFolderMkParent(i, ok) ==
  /\ i \in DOMAIN ul_threads
  /\ ul_threads[i].st = "mkparent"
  /\ LET t      == ul_threads[i]
         parent == PathParent(t.files[t.next].remote)
     IN  IF parent.some
         THEN /\ ok => MkdirP(parent.v) \cap FilePaths(remote_files) = {}
              /\ remote_dirs' = IF ok THEN remote_dirs \cup MkdirP(parent.v) ELSE remote_dirs
              /\ ul_threads' =
                   [ul_threads EXCEPT
                      ![i] = [t EXCEPT
                                !.st = "put",
                                !.calls = Append(@, [op |-> "mkdir", path |-> parent.v,
                                                     ok |-> ok])]]
         ELSE /\ ok
              /\ remote_dirs' = remote_dirs
              /\ ul_threads' = [ul_threads EXCEPT ![i].st = "put"]
  /\ UNCHANGED <<pc, message, panelVars, poolVars, progVars, chanVars, dl_threads,
                 fd_threads, local_dirs, local_files, remote_files>>

\* scp can copy local to remote: the source is a file, the target's directory
\* exists and the target is no directory.
PutCanSucceed(local, remote) ==
  /\ local \in FilePaths(local_files)
  /\ PathParent(remote).some
  /\ PathParent(remote).v \in remote_dirs
  /\ remote \notin remote_dirs

\* The remote files after scp has copied local to remote.
PutFile(local, remote) ==
  {f \in remote_files : f.path # remote}
    \cup {[path |-> remote, size |-> LocalFileSize(local)]}

UploadProgressEvent(label, files_done, files_total, done_bytes, total_bytes) ==
  [type |-> "UploadProgress", label |-> label, files_done |-> files_done,
   files_total |-> files_total, done_bytes |-> done_bytes, total_bytes |-> total_bytes]

UploadCompletedEvent(file_name) == [type |-> "UploadCompleted", file_name |-> file_name]

\* Folder upload, per file: upload_local_file; Ok counts the file and sends
\* UploadProgress, Err leaves the loop.
UlFolderPut(i, ok) ==
  /\ i \in DOMAIN ul_threads
  /\ ul_threads[i].is_dir
  /\ ul_threads[i].st = "put"
  /\ LET t  == ul_threads[i]
         f  == t.files[t.next]
         ev == UploadProgressEvent(FolderLabel(t.name), t.done_files + 1, Len(t.files),
                                   t.done_bytes + f.size, t.total_bytes)
         call == [op |-> "put", path |-> f.remote, ok |-> ok]
     IN  /\ ok => PutCanSucceed(f.local, f.remote)
         /\ remote_files' = IF ok THEN PutFile(f.local, f.remote) ELSE remote_files
         /\ ul_chan' = IF ok THEN Send(ul_chan, ev) ELSE ul_chan
         /\ ul_threads' =
              [ul_threads EXCEPT
                 ![i] = IF ok
                        THEN [t EXCEPT
                                !.st = IF t.next = Len(t.files) THEN "finish" ELSE "mkparent",
                                !.next = @ + 1,
                                !.done_files = @ + 1,
                                !.done_bytes = @ + f.size,
                                !.calls = Append(@, call),
                                !.sent = Append(@, ev)]
                        ELSE [t EXCEPT !.st = "finish", !.calls = Append(@, call)]]
  /\ UNCHANGED <<pc, message, panelVars, poolVars, progVars, dl_chan, dl_threads,
                 fd_threads, local_dirs, local_files, remote_dirs>>

\* Single-file upload: upload_local_file; Ok sends UploadProgress, Err ends
\* the closure.
UlFilePut(i, ok) ==
  /\ i \in DOMAIN ul_threads
  /\ ~ul_threads[i].is_dir
  /\ ul_threads[i].st = "put"
  /\ LET t      == ul_threads[i]
         local  == PathJoin(t.local_root, t.name)
         remote == join_remote_path(t.remote_cwd, t.name)
         size   == IF local \in FilePaths(local_files) THEN LocalFileSize(local) ELSE 0
         ev     == UploadProgressEvent(FileLabel(t.name), 1, 1, size, size)
         call   == [op |-> "put", path |-> remote, ok |-> ok]
     IN  /\ ok => PutCanSucceed(local, remote)
         /\ remote_files' = IF ok THEN PutFile(local, remote) ELSE remote_files
         /\ ul_chan' = IF ok THEN Send(ul_chan, ev) ELSE ul_chan
         /\ ul_threads' =
              [ul_threads EXCEPT
                 ![i] = IF ok
                        THEN [t EXCEPT !.st = "finish", !.calls = Append(@, call),
                                       !.sent = Append(@, ev)]
                        ELSE [t EXCEPT !.st = "exited", !.calls = Append(@, call)]]
  /\ UNCHANGED <<pc, message, panelVars, poolVars, progVars, dl_chan, dl_threads,
                 fd_threads, local_dirs, local_files, remote_dirs>>

\* The closure's last statement on the paths that reach it: UploadCompleted
\* is sent and the thread ends.
UlFinish(i) ==
  /\ i \in DOMAIN ul_threads
  /\ ul_threads[i].st = "finish"
  /\ LET ev == UploadCompletedEvent(ul_threads[i].name)
     IN  /\ ul_chan' = Send(ul_chan, ev)
         /\ ul_threads' = [ul_threads EXCEPT ![i].st = "exited", ![i].sent = Append(@, ev)]
  /\ UNCHANGED <<pc, message, panelVars, poolVars, progVars, dl_chan, dl_threads,
                 fd_threads, fsVars>>

\* --------------------------------------------------- the upload aggregator

\* The arm SftpEvent::UploadCompleted, or the outcome of listing the remote cwd.
HandleUploadCompleted(or) ==
  LET r == RemoteList(remote_panel.cwd, or)
  IN  /\ remote_panel' =
           IF r.ok
           THEN [remote_panel EXCEPT
                   !.entries = WithParentRemote(remote_panel.cwd, r.list),
                   !.selected = 0]
           ELSE remote_panel
      /\ upload_progress' = None
      /\ message' = Some(<<"Upload completed">>)

\* The arm SftpEvent::UploadProgress.
HandleUploadProgress(ev) ==
  /\ upload_progress' =
       Some([label |-> ev.label, files_done |-> ev.files_done,
             files_total |-> ev.files_total, done_bytes |-> ev.done_bytes,
             total_bytes |-> ev.total_bytes])
  /\ UNCHANGED <<remote_panel, message>>

\* One turn of `while let Ok(ev) = ul_rx.try_recv()`.
UlRecv(or) ==
  /\ pc = "ul"
  /\ ul_chan # <<>>
  /\ LET ev == Head(ul_chan)
     IN  IF ev.type = "UploadCompleted"
         THEN or \in ListOutcomes(remote_panel.cwd) /\ HandleUploadCompleted(or)
         ELSE HandleUploadProgress(ev)
  /\ ul_chan' = Tail(ul_chan)
  /\ pc' = "ul"
  /\ UNCHANGED <<focus, mode, filter_input, local_panel, poolVars, download_progress,
                 dl_chan, threadVars, fsVars>>

\* ------------------------------------------------ the folder download worker

\* The `for e in list` of the scan over one remote directory; probe is what
\* ssh_remote_file_size comes to for the files of this scan.
RECURSIVE FdScanDir(_, _, _, _, _)
FdScanDir(list, dir, stack, files, probe) ==
  IF list = <<>> THEN [stack |-> stack, files |-> files]
  ELSE LET e    == Head(list)
           full == join_remote_path(dir, e.name)
       IN  IF e.name = <<".", ".">> THEN FdScanDir(Tail(list), dir, stack, files, probe)
           ELSE IF e.is_dir
           THEN FdScanDir(Tail(list), dir, Append(stack, full), files, probe)
           ELSE IF probe = "err" THEN FdScanDir(Tail(list), dir, stack, files, probe)
           ELSE FdScanDir(Tail(list), dir, stack,
                          Append(files, [remote |-> full,
                                         size |-> IF probe = "size" THEN RemoteFileSize(full)
                                                  ELSE 0]),
                          probe)

\* The `while let Some(dir) = stack.pop()` of the scan; o is what the listings
\* of this scan come to.
RECURSIVE FdScanStack(_, _, _, _)
FdScanStack(stack, files, o, probe) ==
  IF stack = <<>> THEN files
  ELSE LET dir  == stack[Len(stack)]
           rest == SubSeq(stack, 1, Len(stack) - 1)
           l    == RemoteList(dir, IF dir \in remote_dirs THEN o ELSE "nonzero")
           r    == IF l.ok THEN FdScanDir(l.list, dir, rest, files, probe)
                   ELSE [stack |-> rest, files |-> files]
       IN  FdScanStack(r.stack, r.files, o, probe)

\* Path::strip_prefix(root) of a scanned file, file_name() when it fails.
RelativeTo(file, root) ==
  IF /\ Len(file) > Len(root) + 1
     /\ SubSeq(file, 1, Len(root)) = root
     /\ file[Len(root) + 1] = "/"
  THEN SubSeq(file, Len(root) + 2, Len(file))
  ELSE PathFileName(file)

DownloadProgressEvent(folder_label, files_done, files_total, done_bytes, total_bytes) ==
  [type |-> "Progress", folder_label |-> folder_label, files_done |-> files_done,
   files_total |-> files_total, done_bytes |-> done_bytes, total_bytes |-> total_bytes]

\* The Completed event of a folder download: its id is the constant 0.
FolderCompletedEvent(t, ok) ==
  [type |-> "Completed", id |-> 0, file_name |-> FolderLabel(t.folder_name),
   local_path |-> t.local_root, ok |-> ok]

\* The scan of the remote folder, then the first Progress event.
FdScan(i, o, probe) ==
  /\ i \in DOMAIN fd_threads
  /\ fd_threads[i].st = "scan"
  /\ LET t     == fd_threads[i]
         files == FdScanStack(<<t.remote_root>>, <<>>, o, probe)
         total == SumSizes(files)
         ev    == DownloadProgressEvent(FolderLabel(t.folder_name), 0, Len(files), 0, total)
     IN  /\ fd_threads' = [fd_threads EXCEPT
                             ![i] = [t EXCEPT !.st = "mkroot", !.files = files,
                                              !.total_bytes = total,
                                              !.sent = Append(@, ev)]]
         /\ dl_chan' = Send(dl_chan, ev)
  /\ UNCHANGED <<pc, message, panelVars, poolVars, progVars, ul_chan, dl_threads,
                 ul_threads, fsVars>>

\* The `return` after the Completed(Err) is missing: the thread goes on to
\* its files.
FdMkRoot_NoReturn(i, ok) ==
  /\ i \in DOMAIN fd_threads
  /\ fd_threads[i].st = "mkroot"
  /\ LET t == fd_threads[i]
     IN  /\ ok => MkdirP(t.local_root) \cap FilePaths(local_files) = {}
         /\ local_dirs' = IF ok THEN local_dirs \cup MkdirP(t.local_root) ELSE local_dirs
         /\ dl_chan' = IF ok THEN dl_chan ELSE Send(dl_chan, FolderCompletedEvent(t, FALSE))
         /\ fd_threads' =
              [fd_threads EXCEPT
                 ![i] = [t EXCEPT
                           !.st = IF t.files = <<>> THEN "finish" ELSE "get",
                           !.sent = IF ok THEN @
                                    ELSE Append(@, FolderCompletedEvent(t, FALSE))]]
  /\ UNCHANGED <<pc, message, panelVars, poolVars, progVars, ul_chan, dl_threads,
                 ul_threads, local_files, remote_dirs, remote_files>>

\* fs::create_dir_all(&local_root): Err sends Completed(Err) and returns.
FdMkRoot(i, ok) ==
  /\ i \in DOMAIN fd_threads
  /\ fd_threads[i].st = "mkroot"
  /\ LET t == fd_threads[i]
     IN  /\ ok => MkdirP(t.local_root) \cap FilePaths(local_files) = {}
         /\ local_dirs' = IF ok THEN local_dirs \cup MkdirP(t.local_root) ELSE local_dirs
         /\ dl_chan' = IF ok THEN dl_chan ELSE Send(dl_chan, FolderCompletedEvent(t, FALSE))
         /\ fd_threads' =
              [fd_threads EXCEPT
                 ![i] = IF ok
                        THEN [t EXCEPT !.st = IF t.files = <<>> THEN "finish" ELSE "get"]
                        ELSE [t EXCEPT !.st = "exited",
                                       !.sent = Append(@, FolderCompletedEvent(t, FALSE))]]
  /\ UNCHANGED <<pc, message, panelVars, poolVars, progVars, ul_chan, dl_threads,
                 ul_threads, local_files, remote_dirs, remote_files>>

\* The event built before the counters are advanced: it reports the bytes of
\* the files before this one.
FdGetEvent_Stale(t, ok) ==
  IF ok
  THEN DownloadProgressEvent(FolderLabel(t.folder_name), t.done_files + 1, Len(t.files),
                             t.done_bytes, t.total_bytes)
  ELSE FolderCompletedEvent(t, FALSE)

\* The event reports the bytes that remain in place of the bytes done.
FdGetEvent_Remaining(t, ok) ==
  IF ok
  THEN DownloadProgressEvent(FolderLabel(t.folder_name), t.done_files + 1, Len(t.files),
                             t.total_bytes - (t.done_bytes + t.files[t.next].size),
                             t.total_bytes)
  ELSE FolderCompletedEvent(t, FALSE)

\* The event that follows the download of file t.next: Progress with the
\* counters advanced after Ok, Completed(Err) after Err.
FdGetEvent(t, ok) ==
  IF ok
  THEN DownloadProgressEvent(FolderLabel(t.folder_name), t.done_files + 1, Len(t.files),
                             t.done_bytes + t.files[t.next].size, t.total_bytes)
  ELSE FolderCompletedEvent(t, FALSE)

\* One file of the folder: the parent directory is created when nothing is in
\* the way (its result is dropped), then download_remote_file; Ok sends
\* Progress, Err sends Completed(Err) and returns.
FdGet(i, ok) ==
  /\ i \in DOMAIN fd_threads
  /\ fd_threads[i].st = "get"
  /\ LET t      == fd_threads[i]
         f      == t.files[t.next]
         local  == PathJoin(t.local_root, RelativeTo(f.remote, t.remote_root))
         parent == PathParent(local)
         made   == IF parent.some /\ parent.v # <<>>
                      /\ MkdirP(parent.v) \cap FilePaths(local_files) = {}
                   THEN local_dirs \cup MkdirP(parent.v) ELSE local_dirs
     IN  /\ ok => /\ f.remote \in FilePaths(remote_files)
                  /\ parent.some /\ parent.v \in made
                  /\ local \notin made
         /\ local_dirs' = made
         /\ local_files' =
              IF ok
              THEN {x \in local_files : x.path # local}
                     \cup {[path |-> local, size |-> RemoteFileSize(f.remote)]}
              ELSE local_files
         /\ dl_chan' = Send(dl_chan, FdGetEvent(t, ok))
         /\ fd_threads' =
              [fd_threads EXCEPT
                 ![i] = IF ok
                        THEN [t EXCEPT
                                !.st = IF t.next = Len(t.files) THEN "finish" ELSE "get",
                                !.next = @ + 1,
                                !.done_files = @ + 1,
                                !.done_bytes = @ + f.size,
                                !.sent = Append(@, FdGetEvent(t, ok))]
                        ELSE [t EXCEPT !.st = "exited",
                                       !.sent = Append(@, FdGetEvent(t, ok))]]
  /\ UNCHANGED <<pc, message, panelVars, poolVars, progVars, ul_chan, dl_threads,
                 ul_threads, remote_dirs, remote_files>>

\* The closure's last statement: Completed(Ok) for the folder.
FdFinish(i) ==
  /\ i \in DOMAIN fd_threads
  /\ fd_threads[i].st = "finish"
  /\ dl_chan' = Send(dl_chan, FolderCompletedEvent(fd_threads[i], TRUE))
  /\ fd_threads' = [fd_threads EXCEPT
                      ![i].st = "exited",
                      ![i].sent = Append(@, FolderCompletedEvent(fd_threads[i], TRUE))]
  /\ UNCHANGED <<pc, message, panelVars, poolVars, progVars, ul_chan, dl_threads,
                 ul_threads, fsVars>>

\* ------------------------------------------------------------------- keys

\* event::poll times out, or the event read is no key press.
PollTimeout ==
  /\ pc = "input"
  /\ pc' = "ul"
  /\ UNCHANGED <<message, panelVars, poolVars, progVars, chanVars, threadVars, fsVars>>

FocusedPanel == IF focus = "Local" THEN local_panel ELSE remote_panel

\* KeyCode::Up
KeyUp ==
  /\ pc = "input"
  /\ IF focus = "Local"
     THEN /\ local_panel' = [local_panel EXCEPT
                               !.selected = IF @ > 0 THEN @ - 1 ELSE @]
          /\ UNCHANGED remote_panel
     ELSE /\ remote_panel' = [remote_panel EXCEPT
                                !.selected = IF @ > 0 THEN @ - 1 ELSE @]
          /\ UNCHANGED local_panel
  /\ pc' = "ul"
  /\ UNCHANGED <<message, focus, mode, filter_input, poolVars, progVars, chanVars,
                 threadVars, fsVars>>

Min(a, b) == IF a < b THEN a ELSE b

\* KeyCode::Down
KeyDown ==
  /\ pc = "input"
  /\ LET down(panel) ==
           IF panel.entries # <<>>
           THEN [panel EXCEPT !.selected = Min(@ + 1, Len(panel.entries) - 1)]
           ELSE panel
     IN  IF focus = "Local"
         THEN local_panel' = down(local_panel) /\ UNCHANGED remote_panel
         ELSE remote_panel' = down(remote_panel) /\ UNCHANGED local_panel
  /\ pc' = "ul"
  /\ UNCHANGED <<message, focus, mode, filter_input, poolVars, progVars, chanVars,
                 threadVars, fsVars>>

\* KeyCode::Tab
KeyTab ==
  /\ pc = "input"
  /\ focus' = IF focus = "Local" THEN "Remote" ELSE "Local"
  /\ pc' = "ul"
  /\ UNCHANGED <<message, mode, filter_input, local_panel, remote_panel, poolVars,
                 progVars, chanVars, threadVars, fsVars>>

\* KeyCode::Char('u') in Normal mode: the upload thread is spawned.
KeyU ==
  /\ pc = "input"
  /\ mode = "Normal"
  /\ LET sel == selected_entry(local_panel)
     IN  IF focus = "Local" /\ sel.some /\ sel.v.name # <<".", ".">>
         THEN /\ ul_threads' = Append(ul_threads, UploadThreadOf(sel.v))
              /\ message' = Some(<<"Uploading", sel.v.name>>)
         ELSE UNCHANGED <<ul_threads, message>>
  /\ pc' = "ul"
  /\ UNCHANGED <<panelVars, poolVars, progVars, chanVars, dl_threads, fd_threads, fsVars>>

\* KeyCode::Char('q'), and KeyCode::Esc in Normal mode: break 'outer.
KeyQuit ==
  /\ pc = "input"
  /\ mode = "Normal"
  /\ pc' = "quit"
  /\ UNCHANGED <<message, panelVars, poolVars, progVars, chanVars, threadVars, fsVars>>

\* KeyCode::Char('/') in Normal mode.
KeySlash ==
  /\ pc = "input"
  /\ mode = "Normal"
  /\ mode' = "Filter"
  /\ filter_input' = <<>>
  /\ message' = None
  /\ pc' = "ul"
  /\ UNCHANGED <<focus, local_panel, remote_panel, poolVars, progVars, chanVars,
                 threadVars, fsVars>>

\* The local panel moves to target when read_local_dir(target) is Ok; report
\* tells whether the Err arm sets the message.
NavigateLocal(target, ol, report) ==
  /\ ol \in LocalOutcomes(target)
  /\ IF ol = "ok"
     THEN /\ local_panel' = [cwd |-> target,
                             entries |-> WithParentLocal(target, read_local_dir(target)),
                             selected |-> 0]
          /\ message' = None
     ELSE /\ local_panel' = local_panel
          /\ message' = IF report THEN Some(<<"Local read error">>) ELSE message

\* The navigation that leaves the selection where it was.
NavigateRemote_KeepsSelected(target, or, report) ==
  /\ or \in ListOutcomes(target)
  /\ LET r == RemoteList(target, or)
     IN  IF r.ok
         THEN /\ remote_panel' = [cwd |-> target,
                                  entries |-> WithParentRemote(target, r.list),
                                  selected |-> remote_panel.selected]
              /\ message' = None
         ELSE /\ remote_panel' = remote_panel
              /\ message' = IF report THEN Some(<<"Remote read error">>) ELSE message

\* The remote panel moves to target when ssh_list_remote_dir(target) is Ok.
NavigateRemote(target, or, report) ==
  /\ or \in ListOutcomes(target)
  /\ LET r == RemoteList(target, or)
     IN  IF r.ok
         THEN /\ remote_panel' = [cwd |-> target,
                                  entries |-> WithParentRemote(target, r.list),
                                  selected |-> 0]
              /\ message' = None
         ELSE /\ remote_panel' = remote_panel
              /\ message' = IF report THEN Some(<<"Remote read error">>) ELSE message

\* KeyCode::Enter: the selected directory (or "..") is entered; filter mode ends.
KeyEnter(ol, or) ==
  /\ pc = "input"
  /\ IF focus = "Local"
     THEN /\ LET sel == selected_entry(local_panel)
             IN  IF sel.some /\ sel.v.name = <<".", ".">>
                 THEN IF PathParent(local_panel.cwd).some
                      THEN NavigateLocal(PathParent(local_panel.cwd).v, ol, FALSE)
                      ELSE UNCHANGED <<local_panel, message>>
                 ELSE IF sel.some /\ sel.v.is_dir
                 THEN NavigateLocal(PathJoin(local_panel.cwd, sel.v.name), ol, TRUE)
                 ELSE UNCHANGED <<local_panel, message>>
          /\ UNCHANGED remote_panel
     ELSE /\ LET sel == selected_entry(remote_panel)
             IN  IF sel.some /\ sel.v.name = <<".", ".">>
                 THEN NavigateRemote(parent_remote_path(remote_panel.cwd), or, FALSE)
                 ELSE IF sel.some /\ sel.v.is_dir
                 THEN NavigateRemote(join_remote_path(remote_panel.cwd, sel.v.name), or, TRUE)
                 ELSE UNCHANGED <<remote_panel, message>>
          /\ UNCHANGED local_panel
  /\ mode' = "Normal"
  /\ filter_input' = <<>>
  /\ pc' = "ul"
  /\ UNCHANGED <<focus, poolVars, progVars, chanVars, threadVars, fsVars>>

\* KeyCode::Backspace in Normal mode: the focused panel moves to its parent.
KeyBackspace(ol, or) ==
  /\ pc = "input"
  /\ mode = "Normal"
  /\ IF focus = "Local"
     THEN /\ IF PathParent(local_panel.cwd).some
             THEN NavigateLocal(PathParent(local_panel.cwd).v, ol, TRUE)
             ELSE UNCHANGED <<local_panel, message>>
          /\ UNCHANGED remote_panel
     ELSE /\ NavigateRemote(parent_remote_path(remote_panel.cwd), or, TRUE)
          /\ UNCHANGED local_panel
  /\ pc' = "ul"
  /\ UNCHANGED <<focus, mode, filter_input, poolVars, progVars, chanVars, threadVars,
                 fsVars>>

\* An Esc that leaves Filter mode without reading the directory again.
KeyFilterEsc_NoReread(ol, or) ==
  /\ pc = "input"
  /\ mode = "Filter"
  /\ mode' = "Normal"
  /\ filter_input' = <<>>
  /\ UNCHANGED <<local_panel, remote_panel>>
  /\ pc' = "ul"
  /\ UNCHANGED <<message, focus, poolVars, progVars, chanVars, threadVars, fsVars>>

\* KeyCode::Esc in Filter mode: the filter is dropped and the focused panel
\* re-read.
KeyFilterEsc(ol, or) ==
  /\ pc = "input"
  /\ mode = "Filter"
  /\ mode' = "Normal"
  /\ filter_input' = <<>>
  /\ IF focus = "Local"
     THEN /\ ol \in LocalOutcomes(local_panel.cwd)
          /\ local_panel' =
               IF ol = "ok"
               THEN [local_panel EXCEPT
                       !.entries = WithParentLocal(local_panel.cwd,
                                                   read_local_dir(local_panel.cwd)),
                       !.selected = 0]
               ELSE local_panel
          /\ UNCHANGED remote_panel
     ELSE /\ or \in ListOutcomes(remote_panel.cwd)
          /\ LET r == RemoteList(remote_panel.cwd, or)
             IN  remote_panel' =
                   IF r.ok
                   THEN [remote_panel EXCEPT
                           !.entries = WithParentRemote(remote_panel.cwd, r.list),
                           !.selected = 0]
                   ELSE remote_panel
          /\ UNCHANGED local_panel
  /\ pc' = "ul"
  /\ UNCHANGED <<message, focus, poolVars, progVars, chanVars, threadVars, fsVars>>

\* Filter mode after Char or Backspace: the focused panel shows the entries
\* that match filter, ".." put back in front.
Refilter(filter, ol, or) ==
  IF focus = "Local"
  THEN /\ ol \in LocalOutcomes(local_panel.cwd)
       /\ LET base_list == IF ol = "ok" THEN read_local_dir(local_panel.cwd) ELSE <<>>
          IN  local_panel' =
                [local_panel EXCEPT
                   !.entries = WithParentLocal(local_panel.cwd,
                                               apply_filter(base_list, filter)),
                   !.selected = 0]
       /\ UNCHANGED remote_panel
  ELSE /\ or \in ListOutcomes(remote_panel.cwd)
       /\ LET r == RemoteList(remote_panel.cwd, or)
          IN  remote_panel' =
                IF r.ok
                THEN [remote_panel EXCEPT
                        !.entries = WithParentRemote(remote_panel.cwd,
                                                     apply_filter(r.list, filter)),
                        !.selected = 0]
                ELSE remote_panel
       /\ UNCHANGED local_panel

\* KeyCode::Char(c) in Filter mode.
KeyFilterChar(c, ol, or) ==
  /\ pc = "input"
  /\ mode = "Filter"
  /\ filter_input' = Append(filter_input, c)
  /\ Refilter(Append(filter_input, c), ol, or)
  /\ pc' = "ul"
  /\ UNCHANGED <<message, focus, mode, poolVars, progVars, chanVars, threadVars, fsVars>>

\* String::pop
Pop(s) == IF s = <<>> THEN s ELSE SubSeq(s, 1, Len(s) - 1)

\* KeyCode::Backspace in Filter mode.
KeyFilterBackspace(ol, or) ==
  /\ pc = "input"
  /\ mode = "Filter"
  /\ filter_input' = Pop(filter_input)
  /\ Refilter(Pop(filter_input), ol, or)
  /\ pc' = "ul"
  /\ UNCHANGED <<message, focus, mode, poolVars, progVars, chanVars, threadVars, fsVars>>

\* What the size probe of 'd' can come to: stat printed the size, or
\* ssh_remote_file_size gave Ok(None) or an Err (unwrap_or(None)).
ProbeOutcomes(path) ==
  (IF path \in FilePaths(remote_files) THEN {Some(RemoteFileSize(path))} ELSE {}) \cup {None}

\* A 'd' that queues the file only when the probe gave its size.
KeyD_File_NeedsSize(entry, total_size) ==
  IF total_size.some
  THEN LET job == [id |-> next_download_id,
                   file_name |-> entry.name,
                   local_path |-> unique_local_path(local_panel.cwd, entry.name),
                   remote_path |-> join_remote_path(remote_panel.cwd, entry.name),
                   total_size |-> total_size]
       IN  /\ next_download_id' = next_download_id + 1
           /\ pending_downloads' = Append(pending_downloads, job)
           /\ message' = Some(<<"Queued download">>)
           /\ UNCHANGED <<active_downloads, fd_threads>>
  ELSE /\ message' = Some(<<"Queued download">>)
       /\ UNCHANGED <<poolVars, fd_threads>>

\* KeyCode::Char('d') on a remote file: the job is queued.
KeyD_File(entry, total_size) ==
  LET job == [id |-> next_download_id,
              file_name |-> entry.name,
              local_path |-> unique_local_path(local_panel.cwd, entry.name),
              remote_path |-> join_remote_path(remote_panel.cwd, entry.name),
              total_size |-> total_size]
  IN  /\ next_download_id' = next_download_id + 1
      /\ pending_downloads' = Append(pending_downloads, job)
      /\ message' = Some(<<"Queued download">>)
      /\ UNCHANGED <<active_downloads, fd_threads>>

\* A folder download that takes a slot of the pool: it starts only while one
\* is free.
KeyD_Folder_Capped(entry) ==
  /\ fd_threads' =
       IF SlotFree(active_downloads)
       THEN Append(fd_threads,
                   [folder_name |-> entry.name,
                    remote_root |-> join_remote_path(remote_panel.cwd, entry.name),
                    local_root |-> unique_local_path(local_panel.cwd, entry.name),
                    st |-> "scan", files |-> <<>>, next |-> 1, done_files |-> 0,
                    done_bytes |-> 0, total_bytes |-> 0, sent |-> <<>>])
       ELSE fd_threads
  /\ message' = Some(<<"Scanning folder", entry.name>>)
  /\ UNCHANGED poolVars

\* KeyCode::Char('d') on a remote directory: the folder thread is spawned.
KeyD_Folder(entry) ==
  /\ fd_threads' =
       Append(fd_threads,
              [folder_name |-> entry.name,
               remote_root |-> join_remote_path(remote_panel.cwd, entry.name),
               local_root |-> unique_local_path(local_panel.cwd, entry.name),
               st |-> "scan", files |-> <<>>, next |-> 1, done_files |-> 0,
               done_bytes |-> 0, total_bytes |-> 0, sent |-> <<>>])
  /\ message' = Some(<<"Scanning folder", entry.name>>)
  /\ UNCHANGED poolVars

\* KeyCode::Char('d') in Normal mode; probe is what ssh_remote_file_size(..)
\* .unwrap_or(None) gives when the entry is a file.
KeyD(probe) ==
  /\ pc = "input"
  /\ mode = "Normal"
  /\ LET sel == selected_entry(remote_panel)
     IN  IF focus = "Remote" /\ sel.some
         THEN IF ~sel.v.is_dir
              THEN /\ probe \in ProbeOutcomes(join_remote_path(remote_panel.cwd,
                                                                sel.v.name))
                   /\ KeyD_File(sel.v, probe)
              ELSE KeyD_Folder(sel.v)
         ELSE UNCHANGED <<message, poolVars, fd_threads>>
  /\ pc' = "ul"
  /\ UNCHANGED <<panelVars, progVars, chanVars, dl_threads, ul_threads, fsVars>>

\* ---------------------------------------------------- the transport commands

\* str::replace("'", "'\\''"): every quote becomes quote, backslash, quote, quote.
RECURSIVE ReplaceQuotes(_)
ReplaceQuotes(path) ==
  IF path = <<>> THEN <<>>
  ELSE (IF Head(path) = "'" THEN <<"'", "\\", "'", "'">> ELSE <<Head(path)>>)
         \o ReplaceQuotes(Tail(path))

\* shell_escape: the path in single quotes, its own quotes rewritten.
shell_escape(path) ==
  IF path = <<>> THEN <<"'", "'">> ELSE <<"'">> \o ReplaceQuotes(path) \o <<"'">>

\* The text a transport command carries for its remote path: ls, stat and
\* mkdir -p are given shell_escape(path); scp is given user@host:path with
\* the path as it is.
RemoteArg(op, path) ==
  IF op \in {"list", "stat", "mkdir"} THEN shell_escape(path) ELSE path

\* ------------------------------------------------------------- the footer

\* u64::saturating_mul
saturating_mul(a, b) == IF a * b > WordMax THEN WordMax ELSE a * b

\* The percentage of a count that is not clamped to the total first.
Percentage_Unclamped(done, total) == saturating_mul(done, 100) \div total

\* `current = done.min(total); (current.saturating_mul(100) / total) as usize`
Percentage(done, total) == saturating_mul(Min(done, total), 100) \div total

\* `if p.total_bytes > 0 { p.total_bytes } else { 1 }`
TotalOrOne(total_bytes) == IF total_bytes > 0 THEN total_bytes ELSE 1

\* The second line of the footer: which transfer it shows and the percentage
\* of its bar, None where no bar is drawn.
Footer ==
  IF Len(active_downloads) > 0
  THEN LET d == active_downloads[Len(active_downloads)]
       IN  IF d.total_size.some /\ d.total_size.v > 0
           THEN [kind |-> "file", percentage |-> Some(Percentage(d.current_size, d.total_size.v))]
           ELSE [kind |-> "file", percentage |-> None]
  ELSE IF download_progress.some
  THEN [kind |-> "folder",
        percentage |-> Some(Percentage(download_progress.v.done_bytes,
                                       TotalOrOne(download_progress.v.total_bytes)))]
  ELSE IF upload_progress.some
  THEN [kind |-> "upload",
        percentage |-> Some(Percentage(upload_progress.v.done_bytes,
                                       TotalOrOne(upload_progress.v.total_bytes)))]
  ELSE [kind |-> "none", percentage |-> None]

\* ------------------------------------------------------------ specifications

\* The entry 'd' would act on is a remote file.
OnRemoteFile ==
  /\ focus = "Remote"
  /\ selected_entry(remote_panel).some
  /\ ~selected_entry(remote_panel).v.is_dir

\* The size probe answers with the file's size.
ProbeAnswers ==
  Some(RemoteFileSize(join_remote_path(remote_panel.cwd, selected_entry(remote_panel).v.name)))

\* The download pool under load: up to MaxJobs requests for remote files, the
\* aggregator and the single-file workers in every interleaving, each worker
\* ending in Ok or Err.  The operator moves down to a file and presses 'd';
\* the size probe answers and the local directory stays readable.
PoolNext ==
  \/ DlRecv("ok")
  \/ SpawnDownloads
  \/ \E i \in 1..Len(dl_threads), ok \in BOOLEAN : DlWorkerExit(i, ok)
  \/ PollTimeout
  \/ KeyDown
  \/ (next_download_id <= MaxJobs /\ OnRemoteFile /\ KeyD(ProbeAnswers))

SpecPool == Init /\ [][PoolNext]_vars

\* Single-file downloads against every outcome of the environment: the probe
\* may fail, the local refresh may fail, scp creates its destination at any
\* moment of the transfer.
DownloadNext ==
  \/ \E ol \in {"ok", "err"} : DlRecv(ol)
  \/ SpawnDownloads
  \/ \E i \in 1..Len(dl_threads) : DlWorkerCreate(i)
  \/ \E i \in 1..Len(dl_threads), ok \in BOOLEAN : DlWorkerExit(i, ok)
  \/ PollTimeout
  \/ KeyUp
  \/ KeyDown
  \/ (next_download_id <= MaxRequests /\ OnRemoteFile /\ \E probe \in {None, ProbeAnswers} : KeyD(probe))

SpecDownload == Init /\ [][DownloadNext]_vars

\* Uploads against every outcome of the transport: each mkdir and each scp of
\* an upload thread returns Ok or Err, the refresh of the remote panel may
\* fail.  The operator moves in the panels and presses 'u' up to MaxUploads
\* times.
UploadNext ==
  \/ \E or \in {"ok", "nonzero", "err"} : UlRecv(or)
  \/ SpawnDownloads
  \/ PollTimeout
  \/ KeyTab
  \/ KeyUp
  \/ KeyDown
  \/ (Len(ul_threads) < MaxUploads /\ KeyU)
  \/ \E i \in 1..Len(ul_threads) : UlFolderScan(i)
  \/ \E i \in 1..Len(ul_threads), ok \in BOOLEAN : UlFolderMkRoot(i, ok)
  \/ \E i \in 1..Len(ul_threads), ok \in BOOLEAN : UlFolderMkParent(i, ok)
  \/ \E i \in 1..Len(ul_threads), ok \in BOOLEAN : UlFolderPut(i, ok)
  \/ \E i \in 1..Len(ul_threads), ok \in BOOLEAN : UlFilePut(i, ok)
  \/ \E i \in 1..Len(ul_threads) : UlFinish(i)

SpecUpload == Init /\ [][UploadNext]_vars

\* The entry 'u' would act on is a local file.
OnLocalFile ==
  /\ focus = "Local"
  /\ selected_entry(local_panel).some
  /\ ~selected_entry(local_panel).v.is_dir

\* Both panels show the directories the browser started in.
AtHome == local_panel.cwd = LocalHome /\ remote_panel.cwd = RemoteHome

\* Every key of the browser against downloads in flight: the operator moves,
\* filters, enters directories and quits at any moment; from the start
\* directories they ask for up to MaxRequests files and for the upload of up
\* to MaxUploads files.  Listings and probes answer, each download ends in Ok
\* or Err, the scp of an upload fails.
KeysNext ==
  \/ DlRecv("ok")
  \/ SpawnDownloads
  \/ PollTimeout
  \/ KeyUp
  \/ KeyDown
  \/ KeyTab
  \/ KeyQuit
  \/ KeySlash
  \/ KeyEnter("ok", "ok")
  \/ KeyBackspace("ok", "ok")
  \/ KeyFilterEsc("ok", "ok")
  \/ (Len(filter_input) < MaxFilterLen /\ \E c \in FilterChars : KeyFilterChar(c, "ok", "ok"))
  \/ KeyFilterBackspace("ok", "ok")
  \/ (Len(ul_threads) < MaxUploads /\ OnLocalFile /\ AtHome /\ KeyU)
  \/ (next_download_id <= MaxRequests /\ OnRemoteFile /\ AtHome /\ KeyD(ProbeAnswers))
  \/ \E i \in 1..Len(dl_threads), ok \in BOOLEAN : DlWorkerExit(i, ok)
  \/ \E i \in 1..Len(ul_threads) : UlFilePut(i, FALSE)

SpecKeys == Init /\ [][KeysNext]_vars

\* The entry 'd' would act on is a remote directory other than "..".
OnRemoteFolder ==
  /\ focus = "Remote"
  /\ selected_entry(remote_panel).some
  /\ selected_entry(remote_panel).v.is_dir
  /\ selected_entry(remote_panel).v.name # <<".", ".">>

\* Folder downloads against every outcome of the environment: the listings
\* and the size probes of the scan answer or fail, the local root can or
\* cannot be created, each file arrives or fails; the operator may quit.
FolderNext ==
  \/ \E ol \in {"ok", "err"} : DlRecv(ol)
  \/ SpawnDownloads
  \/ PollTimeout
  \/ KeyUp
  \/ KeyDown
  \/ KeyQuit
  \/ (Len(fd_threads) < MaxFolders /\ OnRemoteFolder /\ KeyD(None))
  \/ \E i \in 1..Len(fd_threads), o \in {"ok", "nonzero", "err"},
         probe \in {"size", "none", "err"} : FdScan(i, o, probe)
  \/ \E i \in 1..Len(fd_threads), ok \in BOOLEAN : FdMkRoot(i, ok)
  \/ \E i \in 1..Len(fd_threads), ok \in BOOLEAN : FdGet(i, ok)
  \/ \E i \in 1..Len(fd_threads) : FdFinish(i)

SpecFolder == Init /\ [][FolderNext]_vars

\* A folder download and a single-file download feeding the same channel,
\* against every outcome of the environment; the operator may quit while
\* events wait or workers still run.
ChannelNext ==
  \/ FolderNext
  \/ (next_download_id <= MaxOfEachKind /\ OnRemoteFile /\ KeyD(ProbeAnswers))
  \/ \E i \in 1..Len(dl_threads) : DlWorkerCreate(i)
  \/ \E i \in 1..Len(dl_threads), ok \in BOOLEAN : DlWorkerExit(i, ok)

SpecChannel == Init /\ [][ChannelNext]_vars

\* The start state when the local start directory holds a second folder, f,
\* with one file in it.
InitUploadPair ==
  /\ local_dirs = InitLocalDirs \cup {LocalHome \o <<"/", "f">>}
  /\ local_files = InitLocalFiles \cup {[path |-> LocalHome \o <<"/", "f", "/", "a">>, size |-> 4]}
  /\ remote_dirs = InitRemoteDirs
  /\ remote_files = InitRemoteFiles
  /\ InitUi("ok", "ok", "ok")

\* Two uploads side by side: the operator starts up to MaxUploadPair uploads
\* from the local start directory; every transport call succeeds and the
\* remote panel can be listed.
UploadPairNext ==
  \/ UlRecv("ok")
  \/ SpawnDownloads
  \/ PollTimeout
  \/ KeyTab
  \/ KeyDown
  \/ (Len(ul_threads) < MaxUploadPair /\ AtHome /\ KeyU)
  \/ \E i \in 1..Len(ul_threads) : UlFolderScan(i)
  \/ \E i \in 1..Len(ul_threads) : UlFolderMkRoot(i, TRUE)
  \/ \E i \in 1..Len(ul_threads) : UlFolderMkParent(i, TRUE)
  \/ \E i \in 1..Len(ul_threads) : UlFolderPut(i, TRUE)
  \/ \E i \in 1..Len(ul_threads) : UlFilePut(i, TRUE)
  \/ \E i \in 1..Len(ul_threads) : UlFinish(i)

SpecUploadPair == InitUploadPair /\ [][UploadPairNext]_vars

\* The operator has started no transfer of the other direction.
NoDownloads == next_download_id = 1 /\ fd_threads = <<>>
NoUploads == ul_threads = <<>>

\* The three kinds of worker against every outcome of their transport calls:
\* from the start directories the operator either starts a single-file
\* download and a folder download, which run side by side, or an upload;
\* the panels can be listed.
TransfersNext ==
  \/ UlRecv("ok")
  \/ DlRecv("ok")
  \/ SpawnDownloads
  \/ PollTimeout
  \/ KeyTab
  \/ KeyDown
  \/ (next_download_id <= MaxOfEachKind /\ AtHome /\ NoUploads /\ OnRemoteFile /\ KeyD(ProbeAnswers))
  \/ (Len(fd_threads) < MaxOfEachKind /\ AtHome /\ NoUploads /\ OnRemoteFolder /\ KeyD(None))
  \/ (Len(ul_threads) < MaxOfEachKind /\ AtHome /\ NoDownloads /\ KeyU)
  \/ \E i \in 1..Len(dl_threads) : DlWorkerCreate(i)
  \/ \E i \in 1..Len(dl_threads), ok \in BOOLEAN : DlWorkerExit(i, ok)
  \/ \E i \in 1..Len(fd_threads), o \in {"ok", "err"} : FdScan(i, o, "size")
  \/ \E i \in 1..Len(fd_threads), ok \in BOOLEAN : FdMkRoot(i, ok)
  \/ \E i \in 1..Len(fd_threads), ok \in BOOLEAN : FdGet(i, ok)
  \/ \E i \in 1..Len(fd_threads) : FdFinish(i)
  \/ \E i \in 1..Len(ul_threads) : UlFolderScan(i)
  \/ \E i \in 1..Len(ul_threads), ok \in BOOLEAN : UlFolderMkRoot(i, ok)
  \/ \E i \in 1..Len(ul_threads), ok \in BOOLEAN : UlFolderMkParent(i, ok)
  \/ \E i \in 1..Len(ul_threads), ok \in BOOLEAN : UlFolderPut(i, ok)
  \/ \E i \in 1..Len(ul_threads), ok \in BOOLEAN : UlFilePut(i, ok)
  \/ \E i \in 1..Len(ul_threads) : UlFinish(i)

SpecTransfers == Init /\ [][TransfersNext]_vars

\* The byte counts the footer is drawn from: none, few, the smallest whose
\* hundredfold no longer fits the word, and the largest.
SampleCounts == {0, 1, 2, WordMax \div 100 + 1, WordMax}

\* The loop at work on what the environment reports: a single-file download
\* of a.t may be Active, with the size its probe gave and a local file of any
\* length; a Progress event of a folder download and one of an upload may
\* wait in the channels, with any counts.
InitRender ==
  LET name   == <<"a", ".", "t">>
      job(t) == [id |-> 1, file_name |-> name, local_path |-> PathJoin(LocalHome, name),
                 remote_path |-> join_remote_path(RemoteHome, name), total_size |-> t]
  IN  /\ local_dirs = InitLocalDirs
      /\ remote_dirs = InitRemoteDirs
      /\ remote_files = InitRemoteFiles
      /\ \/ /\ local_files = InitLocalFiles
            /\ active_downloads = <<>>
            /\ dl_threads = <<>>
            /\ next_download_id = 1
         \/ \E t \in {None} \cup {Some(n) : n \in SampleCounts}, c \in SampleCounts :
              /\ local_files = InitLocalFiles \cup {[path |-> PathJoin(LocalHome, name), size |-> c]}
              /\ active_downloads = <<ActiveDownloadOf(job(t))>>
              /\ dl_threads = <<DownloadThreadOf(job(t))>>
              /\ next_download_id = 2
      /\ \/ dl_chan = <<>>
         \/ \E done \in SampleCounts, total \in SampleCounts :
              dl_chan = <<DownloadProgressEvent(FolderLabel(<<"d">>), 1, 3, done, total)>>
      /\ \/ ul_chan = <<>>
         \/ \E done \in SampleCounts, total \in SampleCounts :
              ul_chan = <<UploadProgressEvent(FolderLabel(<<"e">>), 1, 2, done, total)>>
      /\ remote_panel =
           [PanelState_new(RemoteHome) EXCEPT
              !.entries = WithParentRemote(RemoteHome, RemoteList(RemoteHome, "ok").list)]
      /\ local_panel =
           [PanelState_new(LocalHome) EXCEPT
              !.entries = WithParentLocal(LocalHome, read_local_dir(LocalHome))]
      /\ pc = "ul"
      /\ focus = "Remote"
      /\ message = None
      /\ mode = "Normal"
      /\ filter_input = <<>>
      /\ upload_progress = None
      /\ download_progress = None
      /\ pending_downloads = <<>>
      /\ ul_threads = <<>>
      /\ fd_threads = <<>>

RenderNext ==
  \/ UlRecv("ok")
  \/ DlRecv("ok")
  \/ SpawnDownloads
  \/ PollTimeout
  \/ \E i \in 1..Len(dl_threads), ok \in BOOLEAN : DlWorkerExit(i, ok)

SpecRender == InitRender /\ [][RenderNext]_vars

\* The pool is full and a job waits.
PoolFull == Len(active_downloads) = MAX_PARALLEL_DOWNLOADS /\ pending_downloads # <<>>

\* Folder downloads and uploads beside the pool: the operator asks for up to
\* MaxCapJobs files, whose transfers take longer than the run, and, while the
\* pool is full and a job waits, starts a folder download and an upload;
\* their transport calls succeed and the panels can be listed.
UncappedNext ==
  \/ UlRecv("ok")
  \/ DlRecv("ok")
  \/ SpawnDownloads
  \/ PollTimeout
  \/ KeyUp
  \/ KeyDown
  \/ KeyTab
  \/ (next_download_id <= MaxCapJobs /\ OnRemoteFile /\ KeyD(ProbeAnswers))
  \/ (Len(fd_threads) < MaxOfEachKind /\ PoolFull /\ OnRemoteFolder /\ KeyD(None))
  \/ (Len(ul_threads) < MaxOfEachKind /\ PoolFull /\ KeyU)
  \/ \E i \in 1..Len(fd_threads) : FdScan(i, "ok", "size")
  \/ \E i \in 1..Len(fd_threads) : FdMkRoot(i, TRUE)
  \/ \E i \in 1..Len(fd_threads) : FdGet(i, TRUE)
  \/ \E i \in 1..Len(fd_threads) : FdFinish(i)
  \/ \E i \in 1..Len(ul_threads) : UlFolderScan(i)
  \/ \E i \in 1..Len(ul_threads) : UlFolderMkRoot(i, TRUE)
  \/ \E i \in 1..Len(ul_threads) : UlFolderMkParent(i, TRUE)
  \/ \E i \in 1..Len(ul_threads) : UlFolderPut(i, TRUE)
  \/ \E i \in 1..Len(ul_threads) : UlFilePut(i, TRUE)
  \/ \E i \in 1..Len(ul_threads) : UlFinish(i)

SpecUncapped == Init /\ [][UncappedNext]_vars

\* Names in the local start directory that the destinations of downloads
\* from the remote start directory can collide with.
TakenFiles ==
  { LocalHome \o <<"/", "a", ".", "t">>,
    LocalHome \o <<"/", "a", " ", "(", "1", ")", ".", "t">>,
    LocalHome \o <<"/", "a", " ", "(", "2", ")", ".", "t">> }
TakenDirs ==
  { LocalHome \o <<"/", "d">>,
    LocalHome \o <<"/", "d", " ", "(", "1", ")">> }

\* What is taken at the start: nothing, the plain name and the numbered
\* names that follow it, or a numbered name alone.
TakenFileSets ==
  LET plain == LocalHome \o <<"/", "a", ".", "t">>
      one   == LocalHome \o <<"/", "a", " ", "(", "1", ")", ".", "t">>
  IN  {{}, {plain}, {plain, one}, TakenFiles, {one}}
TakenDirSets ==
  {{}, {LocalHome \o <<"/", "d">>}, TakenDirs}

\* The start state when some of those names are taken already.
InitUnique ==
  /\ \E fs \in TakenFileSets, ds \in TakenDirSets :
        /\ local_dirs = InitLocalDirs \cup ds
        /\ local_files = InitLocalFiles \cup {[path |-> f, size |-> 1] : f \in fs}
  /\ remote_dirs = InitRemoteDirs
  /\ remote_files = InitRemoteFiles
  /\ InitUi("ok", "ok", "ok")

\* No folder worker is at work.
FoldersOver == \A i \in 1..Len(fd_threads) : fd_threads[i].st = "exited"

\* Downloads into a directory where names are taken: the operator asks for up
\* to MaxFolders folders and, when no folder worker is at work, for up to
\* MaxRequests files; the single-file workers create their files and end in
\* Ok or Err, the folder worker succeeds.
UniqueNext ==
  \/ DlRecv("ok")
  \/ SpawnDownloads
  \/ PollTimeout
  \/ KeyDown
  \/ (next_download_id <= MaxRequests /\ FoldersOver /\ OnRemoteFile /\ KeyD(ProbeAnswers))
  \/ (Len(fd_threads) < MaxFolders /\ OnRemoteFolder /\ KeyD(None))
  \/ \E i \in 1..Len(dl_threads) : DlWorkerCreate(i)
  \/ \E i \in 1..Len(dl_threads), ok \in BOOLEAN : DlWorkerExit(i, ok)
  \/ \E i \in 1..Len(fd_threads) : FdScan(i, "ok", "size")
  \/ \E i \in 1..Len(fd_threads) : FdMkRoot(i, TRUE)
  \/ \E i \in 1..Len(fd_threads) : FdGet(i, TRUE)
  \/ \E i \in 1..Len(fd_threads) : FdFinish(i)

SpecUnique == InitUnique /\ [][UniqueNext]_vars

\* The browser against every outcome of its listings: the operator moves,
\* enters directories, goes back, filters and quits; each remote listing
\* answers, exits non-zero or cannot be run, each local one answers or fails.
BrowseNext ==
  \/ SpawnDownloads
  \/ PollTimeout
  \/ KeyUp
  \/ KeyDown
  \/ KeyTab
  \/ KeyQuit
  \/ KeySlash
  \/ \E ol \in {"ok", "err"}, or \in {"ok", "nonzero", "err"} : KeyEnter(ol, or)
  \/ \E ol \in {"ok", "err"}, or \in {"ok", "nonzero", "err"} : KeyBackspace(ol, or)
  \/ \E ol \in {"ok", "err"}, or \in {"ok", "nonzero", "err"} : KeyFilterEsc(ol, or)
  \/ (Len(filter_input) < MaxFilterLen
        /\ \E c \in FilterChars, ol \in {"ok", "err"}, or \in {"ok", "nonzero", "err"} :
             KeyFilterChar(c, ol, or))
  \/ \E ol \in {"ok", "err"}, or \in {"ok", "nonzero", "err"} : KeyFilterBackspace(ol, or)

SpecBrowse == Init /\ [][BrowseNext]_vars

\* run_sftp_ui when the listing of the remote start directory is an Err: the
\* `?` returns it before the loop is entered; no thread was spawned.
StartFailed ==
  /\ local_dirs = InitLocalDirs
  /\ local_files = InitLocalFiles
  /\ remote_dirs = InitRemoteDirs
  /\ remote_files = InitRemoteFiles
  /\ \E oh \in {"ok", "nonzero", "err"} :
        LET remote_start == IF Len(RemoteList(RemoteHome, oh).list) > 0 THEN RemoteHome ELSE <<"/">>
        IN  remote_panel = PanelState_new(remote_start)
  /\ local_panel =
       [PanelState_new(LocalHome) EXCEPT
          !.entries = WithParentLocal(LocalHome, read_local_dir(LocalHome))]
  /\ pc = "failed"
  /\ focus = "Remote"
  /\ message = None
  /\ mode = "Normal"
  /\ filter_input = <<>>
  /\ upload_progress = None
  /\ download_progress = None
  /\ next_download_id = 1
  /\ active_downloads = <<>>
  /\ pending_downloads = <<>>
  /\ dl_chan = <<>>
  /\ ul_chan = <<>>
  /\ dl_threads = <<>>
  /\ ul_threads = <<>>
  /\ fd_threads = <<>>

\* The browser when everything fails: every listing the operator asks for
\* fails, the size probe may give nothing, a download and the creation of a
\* folder's local root fail; the operator starts up to MaxOfEachKind
\* downloads of each kind and may quit.
FailuresNext ==
  \/ \E ol \in {"ok", "err"} : DlRecv(ol)
  \/ SpawnDownloads
  \/ PollTimeout
  \/ KeyDown
  \/ KeyTab
  \/ KeyQuit
  \/ \E or \in {"nonzero", "err"} : KeyEnter("err", or)
  \/ \E or \in {"nonzero", "err"} : KeyBackspace("err", or)
  \/ (next_download_id <= MaxOfEachKind /\ OnRemoteFile /\ \E probe \in {None, ProbeAnswers} : KeyD(probe))
  \/ (Len(fd_threads) < MaxOfEachKind /\ OnRemoteFolder /\ KeyD(None))
  \/ \E i \in 1..Len(dl_threads) : DlWorkerExit(i, FALSE)
  \/ \E i \in 1..Len(fd_threads), o \in {"ok", "err"} : FdScan(i, o, "none")
  \/ \E i \in 1..Len(fd_threads) : FdMkRoot(i, FALSE)

\* run_sftp_ui starts either way: it enters its loop, or returns the Err.
SpecFailures == (Init \/ StartFailed) /\ [][FailuresNext]_vars

\* Another process removes a file from the local filesystem: the directories
\* the browser reads are not its own.
LocalFileRemoved ==
  /\ pc # "failed"
  /\ \E f \in local_files : local_files' = local_files \ {f}
  /\ UNCHANGED <<pc, message, panelVars, poolVars, progVars, chanVars, threadVars,
                 local_dirs, remote_dirs, remote_files>>

\* The local panel while its directories change under it: the operator moves
\* in the panels, enters directories and asks for up to MaxOfEachKind files;
\* local files disappear; listings and probes answer.
RefreshNext ==
  \/ DlRecv("ok")
  \/ SpawnDownloads
  \/ PollTimeout
  \/ KeyTab
  \/ KeyDown
  \/ KeyEnter("ok", "ok")
  \/ (next_download_id <= MaxOfEachKind /\ OnRemoteFile /\ KeyD(ProbeAnswers))
  \/ \E i \in 1..Len(dl_threads), ok \in BOOLEAN : DlWorkerExit(i, ok)
  \/ LocalFileRemoved

SpecRefresh == Init /\ [][RefreshNext]_vars

\* The pool when the UI loop keeps turning (event::poll returns after 150 ms
\* at the latest) and every scp terminates, so that every worker is scheduled
\* and sends its event.  The operator never quits and asks for up to
\* MaxLiveJobs files, one more than the pool holds.
PoolLiveNext ==
  \/ DlRecv("ok")
  \/ SpawnDownloads
  \/ \E i \in 1..Len(dl_threads), ok \in BOOLEAN : DlWorkerExit(i, ok)
  \/ PollTimeout
  \/ KeyDown
  \/ (next_download_id <= MaxLiveJobs /\ OnRemoteFile /\ KeyD(ProbeAnswers))

UILoopStep == DlRecv("ok") \/ SpawnDownloads \/ PollTimeout

SpecPoolLive ==
  /\ Init
  /\ [][PoolLiveNext]_vars
  /\ WF_vars(UILoopStep)
  /\ \A i \in 1..MaxLiveJobs : WF_vars(\E ok \in BOOLEAN : DlWorkerExit(i, ok))

\* The pool when the transport of the first worker may hang for ever: the
\* loop keeps turning and every other worker's transport call returns, while
\* nothing is assumed of the first.
SpecHang ==
  /\ Init
  /\ [][PoolLiveNext]_vars
  /\ WF_vars(UILoopStep)
  /\ \A i \in 2..MaxLiveJobs : WF_vars(\E ok \in BOOLEAN : DlWorkerExit(i, ok))

\* The pool when the size probe may give nothing: up to MaxRequests requests,
\* the loop keeps turning and every worker's transport call returns.
ProbeLiveNext ==
  \/ DlRecv("ok")
  \/ SpawnDownloads
  \/ \E i \in 1..Len(dl_threads), ok \in BOOLEAN : DlWorkerExit(i, ok)
  \/ PollTimeout
  \/ KeyDown
  \/ (next_download_id <= MaxRequests /\ OnRemoteFile
        /\ \E probe \in {None, ProbeAnswers} : KeyD(probe))

SpecProbeLive ==
  /\ Init
  /\ [][ProbeLiveNext]_vars
  /\ WF_vars(UILoopStep)
  /\ \A i \in 1..MaxRequests : WF_vars(\E ok \in BOOLEAN : DlWorkerExit(i, ok))

\* ------------------------------------------------------------------ claims

Ids(seq) == {seq[i].id : i \in 1..Len(seq)}

\* The UI loop takes an event off dl_rx in this step.
DlReceived == dl_chan # <<>> /\ dl_chan' = Tail(dl_chan)

\* The UI loop runs its spawn loop in this step.
SpawnStep == pc # "input" /\ pc' = "input"

\* C1: in every reachable state the number of Active single-file downloads
\* (the entries of active_downloads) is at most MAX_PARALLEL_DOWNLOADS.
C1_ActiveBounded == Len(active_downloads) <= MAX_PARALLEL_DOWNLOADS

\* The pool is full while requests wait.
C1_Witness == Len(active_downloads) = MAX_PARALLEL_DOWNLOADS /\ Len(pending_downloads) >= 2

\* C2: queued jobs are promoted in FIFO order.  Ids are handed out in the order
\* of the requests, and dl_threads lists the workers in the order they were
\* spawned: the workers' ids increase, the queue is in request order, and no
\* job still queued was requested before a job that has been promoted.
C2_FifoPromotion ==
  /\ \A i, j \in 1..Len(dl_threads) : i < j => dl_threads[i].id < dl_threads[j].id
  /\ \A i, j \in 1..Len(pending_downloads) :
       i < j => pending_downloads[i].id < pending_downloads[j].id
  /\ \A i \in 1..Len(dl_threads), j \in 1..Len(pending_downloads) :
       dl_threads[i].id < pending_downloads[j].id

\* Two jobs waited together and both were promoted, while a later active job
\* finished before the first one.
C2_Witness ==
  /\ Len(dl_threads) = 5
  /\ dl_threads[1].st = "running"
  /\ dl_threads[3].st = "exited"

\* C3: any two jobs that are Queued or Active at the same time own distinct
\* destination paths.
C3_DistinctDestinations ==
  LET jobs == active_downloads \o pending_downloads
  IN  \A i, j \in 1..Len(jobs) : i # j => jobs[i].local_path # jobs[j].local_path

\* C4: after every promotion step either the pending queue is empty or exactly
\* MAX_PARALLEL_DOWNLOADS jobs are Active; and when 5 jobs have been requested
\* and none has completed, 3 are Active and 2 are Queued.
C4_PoolSaturated ==
  /\ pc = "input" =>
       pending_downloads = <<>> \/ Len(active_downloads) = MAX_PARALLEL_DOWNLOADS
  /\ (next_download_id = 6 /\ Len(active_downloads) + Len(pending_downloads) = 5) =>
       Len(active_downloads) = 3 /\ Len(pending_downloads) = 2

\* Five requests, none completed, seen right after a promotion step.
C4_Witness ==
  /\ pc = "input"
  /\ next_download_id = 6
  /\ Len(active_downloads) + Len(pending_downloads) = 5

\* C5: with MAX_PARALLEL_DOWNLOADS jobs Active and others Queued, receiving one
\* Completed event frees exactly one slot and leaves the queue alone, and the
\* spawn loop that finds exactly one slot free promotes exactly the head of
\* the queue.
C5_OnePromotionPerCompletion ==
  [][ /\ ( /\ DlReceived
           /\ Head(dl_chan).type = "Completed"
           /\ Len(active_downloads) = MAX_PARALLEL_DOWNLOADS
           /\ Head(dl_chan).id \in Ids(active_downloads) )
         => ( /\ Len(active_downloads') = MAX_PARALLEL_DOWNLOADS - 1
              /\ pending_downloads' = pending_downloads
              /\ dl_threads' = dl_threads )
      /\ ( /\ SpawnStep
           /\ Len(active_downloads) = MAX_PARALLEL_DOWNLOADS - 1
           /\ pending_downloads # <<>> )
         => ( /\ pending_downloads' = Tail(pending_downloads)
              /\ Len(active_downloads') = MAX_PARALLEL_DOWNLOADS
              /\ active_downloads'[MAX_PARALLEL_DOWNLOADS].id = Head(pending_downloads).id
              /\ Len(dl_threads') = Len(dl_threads) + 1
              /\ dl_threads'[Len(dl_threads')].id = Head(pending_downloads).id )
    ]_vars

\* The fourth job has been promoted into the slot a completion freed, and
\* another job still waits.
C5_Witness ==
  /\ pc = "input"
  /\ Len(dl_threads) = 4
  /\ Len(active_downloads) = MAX_PARALLEL_DOWNLOADS
  /\ Len(pending_downloads) = 1

\* Job id has been requested / has left the pool after its Completed event.
Requested(id) == id < next_download_id
Completed(id) ==
  /\ Requested(id)
  /\ id \notin Ids(pending_downloads)
  /\ id \notin Ids(active_downloads)

\* C6: every requested single-file download eventually reaches Completed, when
\* every transport call terminates, the loop keeps ticking and nobody quits.
C6_EveryJobCompletes == \A id \in 1..MaxLiveJobs : Requested(id) ~> Completed(id)

\* Every job has completed, the last of them requested while the pool held
\* MAX_PARALLEL_DOWNLOADS or fewer others, and at least one of them failed.
C6_Witness ==
  /\ \A id \in 1..MaxLiveJobs : Completed(id)
  /\ MaxLiveJobs > MAX_PARALLEL_DOWNLOADS
  /\ dl_chan = <<>>
  /\ \A i \in 1..Len(dl_threads) : dl_threads[i].st = "exited"
  /\ message = Some(<<"Download error for", dl_threads[MaxLiveJobs].file_name>>)

\* The states of a single-file download job.
Queued(id) == id \in Ids(pending_downloads)
Active(id) == id \in Ids(active_downloads)

\* The worker threads given job id, and the Completed events for it that wait
\* in the channel.
WorkersOf(id) == {i \in 1..Len(dl_threads) : dl_threads[i].id = id}
CompletedEventsOf(id) ==
  {k \in 1..Len(dl_chan) : dl_chan[k].type = "Completed" /\ dl_chan[k].id = id}

\* C7: a single-file job moves only Queued -> Active -> Completed.  It is
\* never Queued and Active at once, has no worker while Queued and exactly one
\* from then on, has at most one Completed event, sent by its exited worker
\* while the job is Active; it enters the queue only when requested, becomes
\* Active only from the queue, and leaves the active set only when the loop
\* receives its Completed event, whatever key is pressed.
C7_JobLifecycle ==
  /\ [](\A id \in 1..MaxRequests :
          /\ ~(Queued(id) /\ Active(id))
          /\ (Queued(id) \/ Active(id)) => Requested(id)
          /\ Cardinality(WorkersOf(id)) = IF Requested(id) /\ ~Queued(id) THEN 1 ELSE 0
          /\ Cardinality(CompletedEventsOf(id)) <= 1
          /\ CompletedEventsOf(id) # {}
               => Active(id) /\ \A i \in WorkersOf(id) : dl_threads[i].st = "exited"
          /\ (Active(id) /\ pc # "quit" /\ \A i \in WorkersOf(id) : dl_threads[i].st = "exited")
               => CompletedEventsOf(id) # {})
  /\ [][\A id \in 1..MaxRequests :
          /\ (Queued(id) /\ ~Queued(id)') => (Active(id)' /\ SpawnStep)
          /\ (~Queued(id) /\ Queued(id)') => id = next_download_id
          /\ (~Active(id) /\ Active(id)') => Queued(id)
          /\ (Active(id) /\ ~Active(id)')
               => /\ DlReceived
                  /\ Head(dl_chan).type = "Completed"
                  /\ Head(dl_chan).id = id
                  /\ ~Queued(id)'
          /\ dl_threads' # dl_threads /\ WorkersOf(id) # {}
               => WorkersOf(id)' = WorkersOf(id)
       ]_vars

\* The first job has failed and is done, the second is still Active with its
\* Completed event waiting, and the operator has meanwhile left the remote
\* start directory and opened the filter.
C7_Witness ==
  /\ Completed(1)
  /\ \E i \in WorkersOf(1) : dl_threads[i].st = "exited"
  /\ Active(2)
  /\ CompletedEventsOf(2) # {}
  /\ message = None
  /\ mode = "Filter"
  /\ remote_panel.cwd # RemoteHome

\* C8: receiving a Completed event with an Err result removes exactly that job
\* from the active set, keeps the other Active jobs and the order of the queue,
\* and the promotion step that follows refills the pool from the queue.
C8_FailureFreesSlot ==
  /\ [][ ( /\ DlReceived
           /\ Head(dl_chan).type = "Completed"
           /\ ~Head(dl_chan).ok )
         => ( /\ active_downloads' =
                   SelectSeq(active_downloads, LAMBDA d : d.id # Head(dl_chan).id)
              /\ Head(dl_chan).id \in Ids(active_downloads)
                   => Len(active_downloads') = Len(active_downloads) - 1
              /\ pending_downloads' = pending_downloads
              /\ dl_threads' = dl_threads )
       ]_vars
  /\ [](pc = "input" =>
          pending_downloads = <<>> \/ Len(active_downloads) = MAX_PARALLEL_DOWNLOADS)

\* A failure has just been received while two jobs run and another waits.
C8_Witness ==
  /\ pc = "dl"
  /\ message.some
  /\ message.v[1] = "Download error for"
  /\ Len(active_downloads) = MAX_PARALLEL_DOWNLOADS - 1
  /\ pending_downloads # <<>>

\* The events of one kind in a history of events.
EventsOfType(sent, type) == {k \in 1..Len(sent) : sent[k].type = type}

\* C11: a folder download job emits exactly one Completed event, whatever the
\* number of its files and however it ends: none while it runs, one when it
\* has ended, and that one is the last event it sends.
C11_OneFolderCompleted ==
  \A i \in 1..Len(fd_threads) :
    LET t == fd_threads[i]
    IN  /\ Cardinality(EventsOfType(t.sent, "Completed")) =
             IF t.st = "exited" THEN 1 ELSE 0
        /\ t.st = "exited" => t.sent[Len(t.sent)].type = "Completed"

\* A folder job has ended after a failed file transfer that followed a
\* successful one.
C11_Witness ==
  \E i \in 1..Len(fd_threads) :
    /\ fd_threads[i].st = "exited"
    /\ Len(fd_threads[i].files) = 3
    /\ fd_threads[i].done_files = 1
    /\ ~fd_threads[i].sent[Len(fd_threads[i].sent)].ok

\* C12: within one folder download job the Progress events carry
\* non-decreasing files_done and done_bytes.
C12_ProgressMonotone ==
  \A i \in 1..Len(fd_threads) :
    \A k, l \in EventsOfType(fd_threads[i].sent, "Progress") :
      k < l => /\ fd_threads[i].sent[k].files_done <= fd_threads[i].sent[l].files_done
               /\ fd_threads[i].sent[k].done_bytes <= fd_threads[i].sent[l].done_bytes

\* A folder job has sent the Progress events of three files.
C12_Witness ==
  \E i \in 1..Len(fd_threads) :
    /\ Cardinality(EventsOfType(fd_threads[i].sent, "Progress")) = 4
    /\ fd_threads[i].done_bytes > 0

\* s1 + ... + sk for the sizes of the first k enumerated files.
RECURSIVE PrefixBytes(_, _)
PrefixBytes(files, k) == IF k = 0 THEN 0 ELSE PrefixBytes(files, k - 1) + files[k].size

\* C13: the Progress event a folder download sends after its k-th successful
\* file reports files_done = k, files_total = n, done_bytes = s1 + ... + sk
\* and total_bytes = s1 + ... + sn, for the enumerated sizes s1..sn.
C13_ProgressCounts ==
  \A i \in 1..Len(fd_threads) :
    LET t == fd_threads[i]
    IN  \A k \in 0..(Len(t.sent) - 1) :
          t.sent[k + 1].type = "Progress"
            => /\ t.sent[k + 1].files_done = k
               /\ t.sent[k + 1].files_total = Len(t.files)
               /\ t.sent[k + 1].done_bytes = PrefixBytes(t.files, k)
               /\ t.sent[k + 1].total_bytes = PrefixBytes(t.files, Len(t.files))

\* Files of 10, 20 and 30 bytes: after the first one the event reports
\* 1 of 3 files and 10 of 60 bytes.
C13_Witness ==
  \E i \in 1..Len(fd_threads) :
    /\ [k \in 1..Len(fd_threads[i].files) |-> fd_threads[i].files[k].size] = <<10, 20, 30>>
    /\ Len(fd_threads[i].sent) >= 2
    /\ fd_threads[i].sent[2] =
         DownloadProgressEvent(FolderLabel(fd_threads[i].folder_name), 1, 3, 10, 60)

\* C14: on every Completed event the aggregator drains, Ok or Err, the job
\* leaves the active set, the local panel shows the listing of its directory
\* as it is now, and a status message is set.
C14_CompletedRefreshes ==
  [][(DlReceived /\ Head(dl_chan).type = "Completed")
       => /\ active_downloads' =
               SelectSeq(active_downloads, LAMBDA d : d.id # Head(dl_chan).id)
          /\ local_panel'.entries =
               WithParentLocal(local_panel.cwd, read_local_dir(local_panel.cwd))
          /\ message'.some
    ]_vars

\* The label upload thread t puts on its Progress events.
UploadLabel(t) == IF t.is_dir THEN FolderLabel(t.name) ELSE FileLabel(t.name)

\* The events of upload thread t that wait in the channel, and the last event
\* of t the aggregator has received (0 when it has received none).
WaitingOf(t) ==
  {k \in 1..Len(ul_chan) :
     \/ ul_chan[k].type = "UploadProgress" /\ ul_chan[k].label = UploadLabel(t)
     \/ ul_chan[k].type = "UploadCompleted" /\ ul_chan[k].file_name = t.name}
LastReceivedOf(t) == Len(t.sent) - Cardinality(WaitingOf(t))

\* C15: the progress views are kept per label: of every upload whose last
\* received event is a Progress event, the view shown for its label is the one
\* of that event, whatever the other job has sent since.
C15_ViewPerLabel ==
  (\A i, j \in 1..Len(ul_threads) : i # j => ul_threads[i].name # ul_threads[j].name)
    => \A i \in 1..Len(ul_threads) :
         LET t == ul_threads[i]
             r == LastReceivedOf(t)
         IN  (r > 0 /\ t.sent[r].type = "UploadProgress")
               => /\ upload_progress.some
                  /\ upload_progress.v.label = UploadLabel(t)
                  /\ upload_progress.v.files_done = t.sent[r].files_done
                  /\ upload_progress.v.done_bytes = t.sent[r].done_bytes

\* Some transport call of upload thread t returned Err.
CallFailed(t) == \E k \in 1..Len(t.calls) : ~t.calls[k].ok

SentCompleted(t) == \E k \in 1..Len(t.sent) : t.sent[k].type = "UploadCompleted"

\* C9: an upload whose transport call fails does not end silently, and the
\* message "Upload completed" is shown only when some upload ran to its
\* completion event without a failed transport call.
C9_FailuresReported ==
  /\ \A i \in 1..Len(ul_threads) :
       (ul_threads[i].st = "exited" /\ CallFailed(ul_threads[i]))
         => SentCompleted(ul_threads[i])
  /\ message = Some(<<"Upload completed">>)
       => \E i \in 1..Len(ul_threads) :
            SentCompleted(ul_threads[i]) /\ ~CallFailed(ul_threads[i])

\* C10: in a folder upload no put call follows a failed create-directory call.
C10_MkdirFailureAborts ==
  \A i \in 1..Len(ul_threads) :
    \A k \in 1..Len(ul_threads[i].calls) :
      (ul_threads[i].calls[k].op = "mkdir" /\ ~ul_threads[i].calls[k].ok)
        => \A j \in (k + 1)..Len(ul_threads[i].calls) : ul_threads[i].calls[j].op # "put"

\* a is an initial part of b.
IsPrefix(a, b) == Len(a) <= Len(b) /\ SubSeq(b, 1, Len(a)) = a

\* A step of a worker thread: the record of a thread that already runs
\* changes, or the filesystems change.
WorkerStep ==
  \/ \E i \in 1..Len(dl_threads) : i \in DOMAIN dl_threads' /\ dl_threads'[i] # dl_threads[i]
  \/ \E i \in 1..Len(fd_threads) : i \in DOMAIN fd_threads' /\ fd_threads'[i] # fd_threads[i]
  \/ \E i \in 1..Len(ul_threads) : i \in DOMAIN ul_threads' /\ ul_threads'[i] # ul_threads[i]
  \/ fsVars' # fsVars

\* C16: a step of a download or upload worker leaves both panels, the active
\* set, the pending queue, the status message, the progress views and the
\* position of the UI loop unchanged; of the shared state it only appends to
\* the event channels.
C16_WorkersLeaveUiState ==
  [][WorkerStep
       => /\ UNCHANGED <<pc, message, panelVars, poolVars, progVars>>
          /\ IsPrefix(dl_chan, dl_chan')
          /\ IsPrefix(ul_chan, ul_chan')
    ]_vars

\* A single-file worker and a folder worker have run to their ends while the
\* job of the first is still Active in the loop's bookkeeping and the view of
\* the second is still shown.
C16_Witness ==
  /\ \E i \in 1..Len(dl_threads) :
        dl_threads[i].st = "exited" /\ dl_threads[i].id \in Ids(active_downloads)
  /\ \E i \in 1..Len(fd_threads) : fd_threads[i].st = "exited"
  /\ download_progress.some

\* The events of the folder download that wait in the download channel: its
\* Progress events and its Completed event, whose id is 0.
IsFolderEvent(e) == IF e.type = "Completed" THEN e.id = 0 ELSE TRUE
FolderEventsIn(chan) == SelectSeq(chan, IsFolderEvent)

\* How many of the events folder thread t has sent wait no longer.
ConsumedOf(t) == Len(t.sent) - Len(FolderEventsIn(dl_chan))

\* The events of one folder job are queued as they are sent and leave the
\* channel one by one, oldest first, each in a turn of the aggregator that
\* handles it.
ExactlyOnceInOrder ==
  /\ Len(fd_threads') = 1 /\ Len(fd_threads) = 1
  => LET t  == fd_threads[1]
         tn == fd_threads'[1]
         c  == Len(t.sent) - Len(FolderEventsIn(dl_chan))
         cn == Len(tn.sent) - Len(FolderEventsIn(dl_chan'))
     IN  /\ FolderEventsIn(dl_chan') = SubSeq(tn.sent, cn + 1, Len(tn.sent))
         /\ cn # c
              => /\ cn = c + 1
                 /\ DlReceived
                 /\ Head(dl_chan) = t.sent[cn]
                 /\ IF Head(dl_chan).type = "Progress"
                    THEN /\ download_progress'.some
                         /\ download_progress'.v.files_done = Head(dl_chan).files_done
                         /\ download_progress'.v.done_bytes = Head(dl_chan).done_bytes
                    ELSE download_progress' = None /\ message'.some

C18_PercentageInRange ==
  Footer.percentage.some => Footer.percentage.v \in 0..100

\* The loop has sampled a local file longer than the size the probe gave, and
\* the bar of the download stands at 100.
C18_Witness ==
  /\ Footer.kind = "file"
  /\ active_downloads[1].total_size.some
  /\ active_downloads[1].total_size.v > 0
  /\ active_downloads[1].current_size > active_downloads[1].total_size.v
  /\ Footer.percentage = Some(100)

\* The entry 'u' would act on is a local file or folder.
OnLocalEntry ==
  /\ focus = "Local"
  /\ selected_entry(local_panel).some
  /\ selected_entry(local_panel).v.name # <<".", ".">>

\* C19: 'd' on a remote directory and 'u' on a local entry start one more
\* worker in the same step, whatever the pool holds, and leave the active set
\* and the pending queue as they are.
C19_NeverQueuedNorCounted ==
  [][/\ (OnRemoteFolder /\ KeyD(None))
          => /\ Len(fd_threads') = Len(fd_threads) + 1
             /\ fd_threads'[Len(fd_threads')].st = "scan"
             /\ UNCHANGED <<active_downloads, pending_downloads>>
     /\ (OnLocalEntry /\ KeyU)
          => /\ Len(ul_threads') = Len(ul_threads) + 1
             /\ ul_threads'[Len(ul_threads')].st # "exited"
             /\ UNCHANGED <<active_downloads, pending_downloads>>
    ]_vars

\* Three single-file downloads are Active and one is Queued while a folder
\* download and an upload have been started.
C19_Witness ==
  /\ PoolFull
  /\ Len(fd_threads) = 1
  /\ Len(ul_threads) = 1

\* C20: whether or not the transport of the first worker ever returns, the
\* loop comes back to its poll for input again and again, and every other
\* requested download, Queued ones included, eventually completes.
C20_HangAffectsNobody ==
  /\ []<>(pc = "input")
  /\ \A id \in 2..MaxLiveJobs : Requested(id) ~> Completed(id)

\* The first worker is still in its transport call, its job still Active,
\* while every other job, more of them than the slots left, has completed.
C20_Witness ==
  /\ Len(dl_threads) >= 1
  /\ dl_threads[1].st = "running"
  /\ Active(1)
  /\ MaxLiveJobs - 1 > MAX_PARALLEL_DOWNLOADS - 1
  /\ \A id \in 2..MaxLiveJobs : Completed(id)

\* "base (n)suffix" in dir, where file_name splits into base and suffix
\* before position k + 1.
NumberedIn(dir, file_name, k, n) ==
  PathJoin(dir, SubSeq(file_name, 1, k) \o <<" ", "(">> \o FormatInt(n) \o <<")">>
                  \o SubSeq(file_name, k + 1, Len(file_name)))

\* k is where file_name splits at its first '.', or its length when it has none.
SplitsAt(file_name, k) ==
  /\ \A j \in 1..k : file_name[j] # "."
  /\ k < Len(file_name) => file_name[k + 1] = "."

\* path is the destination the claim gives for file_name in dir: free, and
\* either dir/file_name or the numbered name of the smallest n that is free.
RightDestination(dir, file_name, path) ==
  /\ ~LocalExists(path)
  /\ IF ~LocalExists(PathJoin(dir, file_name))
     THEN path = PathJoin(dir, file_name)
     ELSE \E k \in 0..Len(file_name), n \in 1..MaxProbe :
            /\ SplitsAt(file_name, k)
            /\ path = NumberedIn(dir, file_name, k, n)
            /\ \A m \in 1..(n - 1) : LocalExists(NumberedIn(dir, file_name, k, m))

\* C21: the destination a 'd' computes, for a file or for a folder, does not
\* exist at that moment; it is dir/fileName when that is free and otherwise
\* "base (n)suffix" with the smallest free n >= 1, split at the first '.'.
C21_UniqueLocalPath ==
  [][/\ (pc = "input" /\ Len(pending_downloads') = Len(pending_downloads) + 1)
          => LET job == pending_downloads'[Len(pending_downloads')]
             IN  RightDestination(local_panel.cwd, job.file_name, job.local_path)
     /\ (pc = "input" /\ Len(fd_threads') = Len(fd_threads) + 1)
          => LET t == fd_threads'[Len(fd_threads')]
             IN  RightDestination(local_panel.cwd, t.folder_name, t.local_root)
    ]_vars

\* With a.t and "a (1).t" in the directory and "a (2).t" free, a job for a.t
\* waits with the destination "a (2).t".
C21_Witness ==
  /\ LocalExists(LocalHome \o <<"/", "a", ".", "t">>)
  /\ LocalExists(LocalHome \o <<"/", "a", " ", "(", "1", ")", ".", "t">>)
  /\ ~LocalExists(LocalHome \o <<"/", "a", " ", "(", "2", ")", ".", "t">>)
  /\ \E i \in 1..Len(pending_downloads) :
        /\ pending_downloads[i].file_name = <<"a", ".", "t">>
        /\ pending_downloads[i].local_path =
             LocalHome \o <<"/", "a", " ", "(", "2", ")", ".", "t">>

\* C22: a remote listing that fails, by a non-zero exit or because the
\* transport cannot be run, comes back as the empty sequence: Backspace in the
\* remote panel then shows the parent directory, empty but for "..".
C22_ListRemoteNeverFails ==
  [][\A or \in {"nonzero", "err"} :
       (focus = "Remote" /\ KeyBackspace("ok", or))
         => LET parent == parent_remote_path(remote_panel.cwd)
            IN  /\ RemoteList(parent, or) = [ok |-> TRUE, list |-> <<>>]
                /\ remote_panel' = [cwd |-> parent,
                                    entries |-> WithParentRemote(parent, <<>>),
                                    selected |-> 0]
    ]_vars

\* C23: no failure ends the browser: run_sftp_ui never returns an error, and
\* the loop is left only when the operator quits.
C23_ErrorsNeverFatal ==
  /\ [](pc # "failed")
  /\ [][(pc # "quit" /\ pc' = "quit") => KeyQuit]_vars

\* A key that makes the browser read a local directory, pressed when that
\* read fails.
LocalReadFails ==
  /\ focus = "Local"
  /\ \/ /\ selected_entry(local_panel).some
        /\ selected_entry(local_panel).v.is_dir
        /\ selected_entry(local_panel).v.name = <<".", ".">> => PathParent(local_panel.cwd).some
        /\ KeyEnter("err", "ok")
     \/ PathParent(local_panel.cwd).some /\ KeyBackspace("err", "ok")
     \/ KeyFilterEsc("err", "ok")
     \/ \E c \in FilterChars : KeyFilterChar(c, "err", "ok")
     \/ KeyFilterBackspace("err", "ok")

\* C24: when a key makes the browser read a local directory and the read
\* fails, the status message reports it and the local panel keeps its cwd
\* and its entries.
C24_LocalFailureShown ==
  [][LocalReadFails
       => /\ message' = Some(<<"Local read error">>)
          /\ local_panel'.cwd = local_panel.cwd
          /\ local_panel'.entries = local_panel.entries
    ]_vars

\* Job id waits or runs without an expected size.
SizeUnknown(id) ==
  \/ \E i \in 1..Len(pending_downloads) :
        pending_downloads[i].id = id /\ ~pending_downloads[i].total_size.some
  \/ \E i \in 1..Len(active_downloads) :
        active_downloads[i].id = id /\ ~active_downloads[i].total_size.some

\* C25: a 'd' on a remote file whose size probe gives nothing queues the job
\* all the same, with no expected size, and such a job is served and
\* completes like any other.
C25_ProbeNeverBlocks ==
  /\ [][(OnRemoteFile /\ KeyD(None))
          => /\ Len(pending_downloads') = Len(pending_downloads) + 1
             /\ pending_downloads'[Len(pending_downloads')].id = next_download_id
             /\ ~pending_downloads'[Len(pending_downloads')].total_size.some
       ]_vars
  /\ \A id \in 1..MaxRequests : SizeUnknown(id) ~> Completed(id)

\* A job without an expected size is Active and its worker has copied the
\* file and sent its Completed event.
C25_Witness ==
  \E i \in 1..Len(active_downloads) :
    /\ ~active_downloads[i].total_size.some
    /\ active_downloads[i].local_path \in FilePaths(local_files)
    /\ \E k \in 1..Len(dl_chan) :
          /\ dl_chan[k].type = "Completed"
          /\ dl_chan[k].id = active_downloads[i].id
          /\ dl_chan[k].ok

\* C26: in both panels the selected index is below the number of entries
\* whenever there are entries.
C26_SelectionInRange ==
  /\ local_panel.entries # <<>> => local_panel.selected < Len(local_panel.entries)
  /\ remote_panel.entries # <<>> => remote_panel.selected < Len(remote_panel.entries)

\* What the focused panel shows of its directory when nothing is filtered.
FullListing ==
  IF focus = "Local"
  THEN WithParentLocal(local_panel.cwd, read_local_dir(local_panel.cwd))
  ELSE WithParentRemote(remote_panel.cwd, ssh_list_remote_dir(remote_panel.cwd))

\* After the step the mode is Normal and the panel in focus shows its full
\* listing with the first entry selected.
FilterLeft ==
  /\ mode' = "Normal"
  /\ filter_input' = <<>>
  /\ focus' = focus
  /\ FocusedPanel' = [FocusedPanel EXCEPT !.entries = FullListing, !.selected = 0]

C28_HotkeysSuspended ==
  [][(pc = "input" /\ mode = "Filter")
       => /\ focus' = focus
          /\ local_panel'.cwd = local_panel.cwd
          /\ remote_panel'.cwd = remote_panel.cwd
          /\ UNCHANGED <<poolVars, threadVars>>
          /\ pc' # "quit"
    ]_vars

\* C29: every transport command a worker has run, get, put or mkdir -p,
\* carried its remote path shell-escaped.
C29_RemoteArgsEscaped ==
  /\ \A i \in 1..Len(dl_threads) :
        RemoteArg("get", dl_threads[i].remote_path) = shell_escape(dl_threads[i].remote_path)
  /\ \A i \in 1..Len(ul_threads) :
        \A k \in 1..Len(ul_threads[i].calls) :
          RemoteArg(ul_threads[i].calls[k].op, ul_threads[i].calls[k].path)
            = shell_escape(ul_threads[i].calls[k].path)

\* Directories before files, and within each group no entry after one whose
\* lowercased name is greater.
DirsFirstSorted(list) ==
  \A i, j \in 1..Len(list) :
    i < j => /\ (list[j].is_dir => list[i].is_dir)
             /\ (list[i].is_dir = list[j].is_dir
                   => ~StrLess(to_lowercase(list[j].name), to_lowercase(list[i].name)))

\* The panel's first entry is the synthetic "..".
ParentFirst(panel) == panel.entries # <<>> /\ panel.entries[1] = ParentEntry

StartRemotes ==
  { [dirs |-> InitRemoteDirs, files |-> InitRemoteFiles],
    [dirs |-> {<<"/">>, <<"/", "h", "o", "m", "e">>, RemoteHome}, files |-> {}],
    [dirs |-> {<<"/">>, <<"/", "h", "o", "m", "e">>}, files |-> {}] }

\* The start-up with a transport that works: ls on the home directory exits
\* 0 exactly when the directory is there.
InitStartup ==
  /\ local_dirs = InitLocalDirs
  /\ local_files = InitLocalFiles
  /\ \E r \in StartRemotes : remote_dirs = r.dirs /\ remote_files = r.files
  /\ \E os \in {"ok", "nonzero"}, ol \in {"ok", "err"} :
        InitUi(IF RemoteHome \in remote_dirs THEN "ok" ELSE "nonzero", os, ol)

SpecStartup == InitStartup /\ [][BrowseNext]_vars

\* C31: the browser starts in Normal mode, the local panel on the local home
\* directory, the remote panel on the user's home directory when that
\* directory can be listed, empty or not, and on "/" otherwise.
C31_InitialState ==
  /\ mode = "Normal"
  /\ local_panel.cwd = LocalHome
  /\ remote_panel.cwd = (IF RemoteHome \in remote_dirs THEN RemoteHome ELSE <<"/">>)
  /\ [][remote_dirs' = remote_dirs]_vars

\* ------------------------------------------------------- the path utilities

\* The directories the remote panel is put on, and the names a line of the
\* transport's answer can come to once trimmed of blanks and of its '/'.
SampleBases ==
  { <<"/">>, <<"/", "a">>, <<"/", "a", "/", "b">>, <<"a">>, <<>>,
    <<"/", "a", "/">>, <<"/", "a", "/", ".">>, <<"/", ".", ".", "/", "a">> }

SampleNames == { <<"b">>, <<"b", ".", "c">>, <<".">>, <<".", ".", ".">>, <<>> }

\* The loop with the remote panel on any of the directories, showing any of
\* the names as a directory.
InitPaths ==
  /\ local_dirs = InitLocalDirs
  /\ local_files = InitLocalFiles
  /\ remote_dirs = InitRemoteDirs
  /\ remote_files = InitRemoteFiles
  /\ InitLoop("ok")
  /\ \E base \in SampleBases, name \in SampleNames, sel \in 0..1 :
        /\ remote_panel =
             [cwd |-> base,
              entries |-> WithParentRemote(base, <<[name |-> name, is_dir |-> TRUE]>>),
              selected |-> sel]
        /\ sel < Len(remote_panel.entries)

SpecPaths == InitPaths /\ [][BrowseNext]_vars

\* s has a component "." or "..".
HasDotSegment(s) ==
  \E i, j \in 1..Len(s) :
    /\ i <= j
    /\ \A k \in i..j : s[k] = "."
    /\ j - i <= 1
    /\ (i = 1 \/ s[i - 1] = "/")
    /\ (j = Len(s) \/ s[j + 1] = "/")

HasSlash(s) == \E i \in 1..Len(s) : s[i] = "/"

\* The names the remote panel shows, the synthetic ".." apart.
ShownNames ==
  {remote_panel.entries[i].name :
     i \in {k \in 1..Len(remote_panel.entries) : remote_panel.entries[k] # ParentEntry}}

\* join_remote_path on "/" and elsewhere, and parent_remote_path on "/".
JoinsWithOneSlash(base, name) ==
  /\ join_remote_path(<<"/">>, name) = <<"/">> \o name
  /\ base # <<"/">> =>
        join_remote_path(base, name) =
          (IF base # <<>> /\ base[Len(base)] = "/" THEN base \o name
           ELSE base \o <<"/">> \o name)
  /\ parent_remote_path(<<"/">>) = <<"/">>

\* C32 as stated: for the directory and the names the remote panel holds,
\* join_remote_path joins with one '/', parent_remote_path("/") is "/", and
\* parent_remote_path undoes join_remote_path for every base without a
\* trailing slash or dot component and every non-empty name without '/'.
C32_ParentUndoesJoin ==
  \A name \in ShownNames :
    LET base == remote_panel.cwd
    IN  /\ JoinsWithOneSlash(base, name)
        /\ ( /\ base = <<>> \/ base[Len(base)] # "/"
             /\ ~HasDotSegment(base)
             /\ name # <<>>
             /\ ~HasSlash(name) )
             => parent_remote_path(join_remote_path(base, name)) = base

\* C32, amended: the same, for every non-empty base and every name other
\* than ".".
C32_ParentUndoesJoinOfNames ==
  \A name \in ShownNames :
    LET base == remote_panel.cwd
    IN  /\ JoinsWithOneSlash(base, name)
        /\ ( /\ base # <<>>
             /\ base[Len(base)] # "/"
             /\ ~HasDotSegment(base)
             /\ name # <<>>
             /\ name # <<".">>
             /\ ~HasSlash(name) )
             => parent_remote_path(join_remote_path(base, name)) = base

\* Enter has joined a name to a directory other than "/", and the parent of
\* the panel's new directory is the directory it came from.
C32_Witness ==
  /\ Len(remote_panel.cwd) > 2
  /\ ~HasDotSegment(remote_panel.cwd)
  /\ parent_remote_path(remote_panel.cwd) \in SampleBases \ {<<"/">>, <<>>}
  /\ PathFileName(remote_panel.cwd) \in SampleNames
  /\ join_remote_path(parent_remote_path(remote_panel.cwd), PathFileName(remote_panel.cwd))
       = remote_panel.cwd
  /\ remote_panel.entries = <<ParentEntry>>

\* ------------------------------------------------------------------ Enter

\* Where Enter takes the local panel: the parent for "..", the selected
\* directory otherwise.
EnterTargetLocal ==
  LET sel == selected_entry(local_panel)
  IN  IF sel.v.name = <<".", ".">> THEN PathParent(local_panel.cwd).v
      ELSE PathJoin(local_panel.cwd, sel.v.name)

EnterTargetRemote ==
  LET sel == selected_entry(remote_panel)
  IN  IF sel.v.name = <<".", ".">> THEN parent_remote_path(remote_panel.cwd)
      ELSE join_remote_path(remote_panel.cwd, sel.v.name)

\* The local panel after a move to target, the directory read.
EnteredLocal(target) ==
  [cwd |-> target, entries |-> WithParentLocal(target, read_local_dir(target)), selected |-> 0]

\* The remote panel after a move to target, the listing under outcome or.
EnteredRemote(target, or) ==
  [cwd |-> target, entries |-> WithParentRemote(target, RemoteList(target, or).list),
   selected |-> 0]

\* C33 as stated: in Normal mode Enter on a directory entry, or on "..",
\* always moves the focused panel to that directory, shows its listing and
\* selects the first entry; Enter on a file changes nothing in the panel.
C33_EnterMoves ==
  [][\A ol \in {"ok", "err"}, or \in {"ok", "nonzero", "err"} :
       (mode = "Normal" /\ KeyEnter(ol, or))
         => /\ (focus = "Local" /\ selected_entry(local_panel).some)
                 => local_panel' = (IF selected_entry(local_panel).v.is_dir
                                    THEN EnteredLocal(EnterTargetLocal)
                                    ELSE local_panel)
            /\ (focus = "Remote" /\ selected_entry(remote_panel).some)
                 => remote_panel' = (IF selected_entry(remote_panel).v.is_dir
                                     THEN EnteredRemote(EnterTargetRemote, or)
                                     ELSE remote_panel)
    ]_vars

\* C33, amended: the same when the directory can be listed (read_local_dir
\* is Ok, ssh runs); when the listing is an error the panel keeps its cwd,
\* entries and selection.
C33_EnterMovesWhenListed ==
  [][\A ol \in {"ok", "err"}, or \in {"ok", "nonzero", "err"} :
       (mode = "Normal" /\ KeyEnter(ol, or))
         => /\ (focus = "Local" /\ selected_entry(local_panel).some)
                 => local_panel' = (IF selected_entry(local_panel).v.is_dir /\ ol = "ok"
                                    THEN EnteredLocal(EnterTargetLocal)
                                    ELSE local_panel)
            /\ (focus = "Remote" /\ selected_entry(remote_panel).some)
                 => remote_panel' = (IF selected_entry(remote_panel).v.is_dir /\ or # "err"
                                     THEN EnteredRemote(EnterTargetRemote, or)
                                     ELSE remote_panel)
    ]_vars

\* Both panels have been taken into a subdirectory, which only Enter on
\* the second entry does: each shows ".." and the listing, the first entry
\* selected.
C33_Witness ==
  /\ mode = "Normal"
  /\ local_panel = EnteredLocal(LocalHome \o <<"/", "e">>)
  /\ remote_panel = EnteredRemote(RemoteHome \o <<"/", "d">>, "ok")
  /\ Len(remote_panel.entries) = 4

\* ------------------------------------------------- job ids and completions

\* Single-file downloads beside a folder download: from the start
\* directories the operator asks for up to MaxRequests files and MaxFolders
\* folders; the workers end either way and the aggregator drains their events.
IdsNext ==
  \/ DlRecv("ok")
  \/ SpawnDownloads
  \/ PollTimeout
  \/ KeyUp
  \/ KeyDown
  \/ (next_download_id <= MaxRequests /\ AtHome /\ OnRemoteFile /\ KeyD(None))
  \/ (Len(fd_threads) < MaxFolders /\ AtHome /\ OnRemoteFolder /\ KeyD(None))
  \/ \E i \in 1..Len(dl_threads), ok \in BOOLEAN : DlWorkerExit(i, ok)
  \/ \E i \in 1..Len(fd_threads) : FdScan(i, "ok", "none")
  \/ \E i \in 1..Len(fd_threads), ok \in BOOLEAN : FdMkRoot(i, ok)
  \/ \E i \in 1..Len(fd_threads), ok \in BOOLEAN : FdGet(i, ok)
  \/ \E i \in 1..Len(fd_threads) : FdFinish(i)

SpecIds == InitWith("ok", "ok", "ok") /\ [][IdsNext]_vars

\* The jobs in enqueue order: those running, then those waiting.
Enqueued == active_downloads \o pending_downloads

\* The aggregator handles a Completed event.
DrainsCompleted == InDlDrain /\ dl_chan # <<>> /\ Head(dl_chan).type = "Completed" /\ DlRecv("ok")

\* C34: the single-file download jobs have distinct ids from 1 on, growing
\* in enqueue order; handling a Completed event removes from the active set
\* at most one job, the one with the event's id, whose worker sent it; the
\* Completed event of a folder download removes none.
C34_IdsCorrelate ==
  /\ [](/\ \A i \in 1..Len(Enqueued) : Enqueued[i].id \in 1..(next_download_id - 1)
        /\ \A i, j \in 1..Len(Enqueued) : i < j => Enqueued[i].id < Enqueued[j].id)
  /\ [][DrainsCompleted
          => LET ev == Head(dl_chan)
             IN  /\ Len(active_downloads') >= Len(active_downloads) - 1
                 /\ \A i \in 1..Len(active_downloads) :
                       \/ active_downloads[i].id \in Ids(active_downloads')
                       \/ /\ active_downloads[i].id = ev.id
                          /\ active_downloads[i].file_name = ev.file_name
                          /\ \E k \in 1..Len(dl_threads) :
                                dl_threads[k].id = ev.id /\ dl_threads[k].st = "exited"
                 /\ IsFolderEvent(ev) => Ids(active_downloads') = Ids(active_downloads)
     ]_vars

\* The folder download is over and its Completed event handled, the second
\* single-file job gone from the active set and the first still in it.
C34_Witness ==
  /\ Len(fd_threads) = 1
  /\ fd_threads[1].sent # <<>>
  /\ fd_threads[1].sent[Len(fd_threads[1].sent)].type = "Completed"
  /\ dl_chan = <<>>
  /\ Ids(active_downloads) = {1}
  /\ pending_downloads = <<>>
  /\ next_download_id = 3

\* The ids of the single-file workers whose Completed event the aggregator
\* has not handled: the worker runs, or its event waits in the channel.
Unhandled ==
  {dl_threads[k].id :
     k \in {i \in 1..Len(dl_threads) :
              \/ dl_threads[i].st = "running"
              \/ \E e \in 1..Len(dl_chan) :
                    dl_chan[e].type = "Completed" /\ dl_chan[e].id = dl_threads[i].id}}

\* C35: the active set holds, once each, exactly the single-file jobs whose
\* worker has been spawned and whose Completed event is not yet handled; a
\* job enters it in the step that spawns its worker.
C35_ActiveIsSpawnedUnhandled ==
  /\ [](/\ Ids(active_downloads) = Unhandled
        /\ Cardinality(Ids(active_downloads)) = Len(active_downloads))
  /\ [][Ids(active_downloads') \ Ids(active_downloads)
          = Ids(dl_threads') \ Ids(dl_threads)]_vars

\* The pool is full of running workers, one more job waits without a worker,
\* and an earlier job has left the active set.
C35_Witness ==
  /\ Len(active_downloads) = MAX_PARALLEL_DOWNLOADS
  /\ \A i \in 1..Len(dl_threads) :
        dl_threads[i].id \in Ids(active_downloads) => dl_threads[i].st = "running"
  /\ pending_downloads # <<>>
  /\ Ids(pending_downloads) \cap Ids(dl_threads) = {}
  /\ 1 \notin Ids(active_downloads)

\* C36: handling the Completed event of a single-file download leaves the
\* progress view of a folder download whose worker still runs as it was.
C36_OtherViewsKept ==
  [][( /\ DrainsCompleted
       /\ ~IsFolderEvent(Head(dl_chan))
       /\ \E i \in 1..Len(fd_threads) : fd_threads[i].st # "exited" )
        => download_progress' = download_progress]_vars

\* ------------------------------------------------------- filter and mode

\* Every key of the browser and a download that completes with an error, the
\* disks as they were at the start and every listing a success.
FilterNext ==
  \/ DlRecv("ok")
  \/ SpawnDownloads
  \/ PollTimeout
  \/ KeyUp
  \/ KeyDown
  \/ KeyTab
  \/ KeyQuit
  \/ KeySlash
  \/ KeyEnter("ok", "ok")
  \/ KeyBackspace("ok", "ok")
  \/ KeyFilterEsc("ok", "ok")
  \/ (Len(filter_input) < MaxFilterLen /\ \E c \in FilterChars : KeyFilterChar(c, "ok", "ok"))
  \/ KeyFilterBackspace("ok", "ok")
  \/ (next_download_id <= MaxOfEachKind /\ AtHome /\ OnRemoteFile /\ KeyD(ProbeAnswers))
  \/ \E i \in 1..Len(dl_threads) : DlWorkerExit(i, FALSE)

SpecFilter == InitWith("ok", "ok", "ok") /\ [][FilterNext]_vars

\* The listing of each panel's cwd, behind "..", under a filter text.
ShownLocal(filter) ==
  WithParentLocal(local_panel.cwd, apply_filter(read_local_dir(local_panel.cwd), filter))

ShownRemote(filter) ==
  WithParentRemote(remote_panel.cwd, apply_filter(ssh_list_remote_dir(remote_panel.cwd), filter))

\* C37: in Normal mode the filter text is empty and both panels show the
\* unfiltered listing of their cwd; in Filter mode the focused panel shows
\* the listing filtered by the filter text.
C37_ModeMatchesEntries ==
  /\ mode = "Normal"
       => /\ filter_input = <<>>
          /\ local_panel.entries = ShownLocal(<<>>)
          /\ remote_panel.entries = ShownRemote(<<>>)
  /\ mode = "Filter"
       => IF focus = "Local" THEN local_panel.entries = ShownLocal(filter_input)
          ELSE remote_panel.entries = ShownRemote(filter_input)

\* --------------------------------------------------- hotkeys on ".."

\* The operator walks both panels and presses 'u' and 'd' on "..". The steps
\* of a worker started on ".." are left out: what it lists and writes
\* depends on how the two systems resolve the path.
ParentNext ==
  \/ SpawnDownloads
  \/ PollTimeout
  \/ KeyUp
  \/ KeyDown
  \/ KeyTab
  \/ KeyEnter("ok", "ok")
  \/ (selected_entry(FocusedPanel) = Some(ParentEntry) /\ KeyU)
  \/ (/\ Len(fd_threads) < MaxFolders
      /\ selected_entry(FocusedPanel) = Some(ParentEntry)
      /\ KeyD(None))

SpecParent == InitWith("ok", "ok", "ok") /\ [][ParentNext]_vars

\* The selected entry of the panel in focus is the synthetic "..".
OnParentEntry == selected_entry(FocusedPanel) = Some(ParentEntry)

\* C38: 'u' on ".." in the local panel and 'd' on ".." in the remote panel
\* spawn no worker and queue no job.
C38_ParentStartsNothing ==
  [][(OnParentEntry /\ (KeyU \/ KeyD(None))) => UNCHANGED <<poolVars, threadVars>>]_vars

\* ---------------------------------------------- folder downloads, complete

\* The remote files below the root of folder thread t.
SubtreeOf(t) ==
  {f \in FilePaths(remote_files) :
     /\ Len(f) > Len(t.remote_root) + 1
     /\ SubSeq(f, 1, Len(t.remote_root) + 1) = t.remote_root \o <<"/">>}

\* Folder thread t has reported Completed(Ok).
ReportedOk(t) ==
  /\ t.sent # <<>>
  /\ t.sent[Len(t.sent)].type = "Completed"
  /\ t.sent[Len(t.sent)].ok

\* C39: a folder download that has reported Completed(Ok) has transferred
\* every file of the remote subtree, whatever the listings and size probes
\* of its scan came to.
C39_OkMeansWholeSubtree ==
  \A i \in 1..Len(fd_threads) :
    ReportedOk(fd_threads[i])
      => \A f \in SubtreeOf(fd_threads[i]) :
           PathJoin(fd_threads[i].local_root, RelativeTo(f, fd_threads[i].remote_root))
             \in FilePaths(local_files)

\* C40: when the aggregator handles a Completed(Ok) event and the refresh of
\* the local panel fails, the message it leaves is not the plain success
\* message.
C40_RefreshFailureShown ==
  [][( /\ InDlDrain
       /\ dl_chan # <<>>
       /\ Head(dl_chan).type = "Completed"
       /\ Head(dl_chan).ok
       /\ DlRecv("err") )
        => message' # Some(<<"Downloaded", Head(dl_chan).file_name>>)]_vars

====
